---- MODULE Spec2Model ----
(***************************************************************************)
(* Model of the native layer of the film module:                           *)
(*   quickjs-android.cpp  script context registry, script evaluation       *)
(*                        boundary and the HTTP capability of scripts      *)
(*   http-bridge.cpp      native HTTP requests of the host                 *)
(* Text is modelled as a sequence of one-character strings, so that        *)
(* concatenation and prefixes are computed and not assumed.                *)
(***************************************************************************)
EXTENDS Integers, Sequences, FiniteSets, TLC

\* ---------------------------------------------------------------- bounds
\* number of caller threads that enter the JNI functions
NumThreads == 2
\* the callers stop creating contexts once g_next_context_id exceeds this
MaxId == 2

Threads == 1..NumThreads
NoThread == 0
\* context ids a caller may pass: 0 is never assigned
ContextIds == 0..MaxId

\* ------------------------------------------------------------------ text
ERROR_MARK == <<"E","R","R","O","R",":">>
ERR_PREFIX == <<"E","R","R","O","R",":"," ">>
ERR_NOT_FOUND == <<"E","R","R","O","R",":"," ","C","o","n","t","e","x","t"," ","n","o","t"," ","f","o","u","n","d">>
ERR_INVALID == <<"E","R","R","O","R",":"," ","C","o","n","t","e","x","t"," ","i","s"," ","i","n","v","a","l","i","d">>
ERR_FUNC_NOT_FOUND == <<"E","R","R","O","R",":"," ","F","u","n","c","t","i","o","n"," ","n","o","t"," ","f","o","u","n","d",":"," ">>
ERR_BAD_JSON == <<"E","R","R","O","R",":"," ","I","n","v","a","l","i","d"," ","J","S","O","N"," ","a","r","g","u","m","e","n","t","s">>
ERR_UNKNOWN_JS == <<"E","R","R","O","R",":"," ","U","n","k","n","o","w","n"," ","J","a","v","a","S","c","r","i","p","t"," ","e","r","r","o","r">>
ERR_UNKNOWN_CALL == <<"E","R","R","O","R",":"," ","U","n","k","n","o","w","n"," ","f","u","n","c","t","i","o","n"," ","c","a","l","l"," ","e","r","r","o","r">>
ERR_CURL_INIT == <<"E","R","R","O","R",":"," ","F","a","i","l","e","d"," ","t","o"," ","i","n","i","t","i","a","l","i","z","e"," ","C","U","R","L">>
NOT_SUPPORTED_TEXT == <<"{","\"","e","r","r","o","r","\"",":"," ","\"","H","T","T","P","_","N","O","T","_","S","U","P","P","O","R","T","E","D","\"","}">>
BRIDGE_INIT_ERR == <<"F","a","i","l","e","d"," ","t","o"," ","i","n","i","t","i","a","l","i","z","e"," ","l","i","b","c","u","r","l">>
BRIDGE_NO_CURL_BODY == <<"{","\"","e","r","r","o","r","\"",":","\"","H","T","T","P"," ","s","u","p","p","o","r","t"," ","n","o","t"," ","a","v","a","i","l","a","b","l","e"," ","(","l","i","b","c","u","r","l"," ","n","o","t"," ","f","o","u","n","d",")","\"","}">>
BRIDGE_NO_CURL_ERR == <<"l","i","b","c","u","r","l"," ","n","o","t"," ","a","v","a","i","l","a","b","l","e">>

\* texts produced by the libraries (QuickJS, libcurl, the C++ runtime)
STR_UNDEFINED == <<"u","n","d","e","f","i","n","e","d">>
EXC_TEXT == <<"E","r","r","o","r",":"," ","b","o","o","m">>
SYNTAX_TEXT == <<"S","y","n","t","a","x","E","r","r","o","r",":"," ","u","n","e","x","p","e","c","t","e","d"," ","t","o","k","e","n">>
CURL_STRERROR == <<"T","i","m","e","o","u","t"," ","w","a","s"," ","r","e","a","c","h","e","d">>
WHAT_TEXT == <<"s","t","d",":",":","e","x","c","e","p","t","i","o","n">>
\* texts chosen by scripts and servers
VALUE_TEXT == <<"4","2">>
ERRVAL_TEXT == <<"E","R","R","O","R",":","x">>
BODY_TEXT == <<"o","k">>

\* s begins with p
BeginsWith(s, p) == Len(s) >= Len(p) /\ SubSeq(s, 1, Len(p)) = p

\* ------------------------------------------------- the scripts of callers
\* function names a caller may ask for; scripts define only f
FuncNames == {<<"f">>, <<"g">>}
\* a text that a read of the released funcName buffer may yield instead of
\* the name
GarbageNames == {<<"?">>}

\* behaviours of a piece of script code, by what JS_Eval / JS_Call does:
\*   value      completes with the string "42"
\*   undef      completes with undefined
\*   errval     completes with the string "ERROR:x"
\*   throw      throws Error("boom")
\*   throw_raw  throws a value whose conversion to text fails
\*   loop       never returns
\*   http       returns httpGet(url).data
Bodies == {"value", "undef", "errval", "throw", "throw_raw", "loop", "http"}
\* scripts given to evaluate: a body, text that does not parse ("syntax"),
\* or "def": function f(a) { ... } whose behaviour is selected by its
\* argument
Scripts == Bodies \cup {"syntax", "def"}
\* args_json given to callFunction: text that is not JSON ("invalid"), or
\* a JSON value that selects the behaviour of f
ArgsJson == Bodies \cup {"invalid"}
\* the scripts and arguments of the callers of the concurrent specification
CoreScripts == {"value", "throw", "syntax", "loop", "http", "def"}
CoreArgsJson == {"value", "throw", "loop", "http", "invalid"}

NoGlobals == [n \in FuncNames |-> "undefined"]

\* ----------------------------------------------------------------- state
VARIABLES
    g_contexts,          \* map context id -> QuickJSContextWrapper
    g_contexts_mutex,    \* holder of the registry lock, or NoThread
    g_next_context_id,   \* next id to hand out
    pc,                  \* position of each caller thread
    op,                  \* the JNI call each thread is in, with its arguments
    ret,                 \* what the last finished call of a thread returned
    resp,                \* response object the running script got from httpGet
    bridge,              \* HttpResponse of the last nativeRequest (http-bridge)
    haveCurl,            \* the build defines HAVE_CURL
    crashed,             \* the process was killed by a fault
    issued,              \* history: ids returned by createJSContext, in order
    destroyedIds,        \* history: ids whose context destroyJSContext erased
    jsCall,              \* the HTTP function a script called last, with argv
    jsResult,            \* what that function did: request sent, value returned
    spiderCall,          \* the last call into spider-bridge, with its arguments
    spiderResult         \* what that call returned

vars == <<g_contexts, g_contexts_mutex, g_next_context_id, pc, op, ret, resp,
          bridge, haveCurl, crashed, issued, destroyedIds,
          jsCall, jsResult, spiderCall, spiderResult>>

\* the state of the registry and of http-bridge
registryVars == <<g_contexts, g_contexts_mutex, g_next_context_id, pc, op, ret,
                  resp, bridge, crashed, issued, destroyedIds>>
\* the state of the script HTTP functions and of spider-bridge
scriptHttpVars == <<jsCall, jsResult>>
spiderVars == <<spiderCall, spiderResult>>

\* ------------------------------------------------------- values and records
NoOp == [name |-> "none", context_id |-> 0, script |-> "undef",
         funcName |-> << >>, args |-> "undef", afterDestroy |-> FALSE]

NoRet == [kind |-> "none", str |-> << >>, num |-> 0]
StringRet(s) == [kind |-> "string", str |-> s, num |-> 0]
LongRet(n) == [kind |-> "long", str |-> << >>, num |-> n]
BoolRet(b) == [kind |-> "bool", str |-> << >>, num |-> IF b THEN 1 ELSE 0]
VoidRet == [kind |-> "void", str |-> << >>, num |-> 0]

\* the lock of std::mutex / std::lock_guard can be taken when nobody holds it
MutexFree_NoBlocking(holder) == TRUE
MutexFree(holder) == holder = NoThread

Registered(id) == id \in DOMAIN g_contexts

\* ------------------------------------------------------------ transport
\* header lines a server may send, as (name, value) after trimming
HeaderLines == {<< >>,
                << <<"Content-Type", "text/html">> >>,
                << <<"CONTENT-TYPE", "text/html">> >>,
                << <<"Server", "nginx">>, <<"content-type", "text/plain">> >>}

\* what libcurl may do with one request
TransportOutcomes ==
    {[kind |-> "init_fail", code |-> 0, body |-> << >>, hdrs |-> << >>],
     [kind |-> "exception", code |-> 0, body |-> << >>, hdrs |-> << >>]}
    \cup [kind : {"perform_fail"}, code : {0}, body : {<< >>, BODY_TEXT},
          hdrs : {<< >>, << <<"Server", "nginx">> >>}]
    \cup [kind : {"ok"}, code : {200, 404}, body : {BODY_TEXT, ERRVAL_TEXT},
          hdrs : HeaderLines]

\* HttpResponse() of quickjs-android.cpp
NewHttpResponse == [responseCode |-> 0, data |-> << >>, contentType |-> "",
                    headers |-> << >>]

\* headers[key] = value on a std::map, kept here as a sequence of
\* (key, value) with unique keys; a later value replaces the earlier one
MapPut(m, k, v) ==
    IF \E i \in 1..Len(m) : m[i][1] = k
    THEN [i \in 1..Len(m) |-> IF m[i][1] = k THEN <<k, v>> ELSE m[i]]
    ELSE Append(m, <<k, v>>)

MapHas(m, k) == \E i \in 1..Len(m) : m[i][1] = k
MapGet(m, k) == m[CHOOSE i \in 1..Len(m) : m[i][1] = k][2]

\* HeaderCallback: store the header, and keep Content-Type apart
HeaderCallback(response, line) ==
    LET key == line[1]
        value == line[2]
        r1 == [response EXCEPT !.headers = MapPut(response.headers, key, value)]
    IN IF key = "Content-Type" \/ key = "content-type"
       THEN [r1 EXCEPT !.contentType = value]
       ELSE r1

RECURSIVE ReceiveHeaders(_, _)
ReceiveHeaders(response, lines) ==
    IF lines = << >> THEN response
    ELSE ReceiveHeaders(HeaderCallback(response, Head(lines)), Tail(lines))

\* performHttpRequest of quickjs-android.cpp, built with libcurl
performHttpRequestCurl(o) ==
    IF o.kind = "init_fail"
    THEN [NewHttpResponse EXCEPT !.responseCode = -1, !.data = ERR_CURL_INIT]
    ELSE IF o.kind = "exception"
    THEN [NewHttpResponse EXCEPT !.responseCode = -1,
                                 !.data = ERR_PREFIX \o WHAT_TEXT]
    ELSE LET received == [ReceiveHeaders(NewHttpResponse, o.hdrs)
                            EXCEPT !.data = o.body]
         IN IF o.kind = "perform_fail"
            THEN [received EXCEPT !.responseCode = -1,
                                  !.data = ERR_PREFIX \o CURL_STRERROR]
            ELSE [received EXCEPT !.responseCode = o.code]

\* performHttpRequest of quickjs-android.cpp, built without libcurl
performHttpRequestNoCurl ==
    [NewHttpResponse EXCEPT !.responseCode = 200,
                            !.contentType = "application/json",
                            !.data = NOT_SUPPORTED_TEXT]

performHttpRequest(curl, o) ==
    IF curl THEN performHttpRequestCurl(o) ELSE performHttpRequestNoCurl

\* the transport result behind a response: "unavailable" without libcurl
TransportOf(curl, o) == IF curl THEN o.kind ELSE "unavailable"

\* the response object js_http_get hands to the script
js_http_get(curl, o) ==
    LET response == performHttpRequest(curl, o)
    IN [has |-> TRUE, transport |-> TransportOf(curl, o),
        status |-> response.responseCode, data |-> response.data,
        contentType |-> response.contentType, headers |-> response.headers]

NoResp == [has |-> FALSE, transport |-> "none", status |-> 0, data |-> << >>,
           contentType |-> "", headers |-> << >>]

\* performHttpRequest of http-bridge.cpp; ms is the measured duration
BridgePerformHttpRequest(curl, o, ms) ==
    LET r0 == [statusCode |-> 0, body |-> << >>, headers |-> << >>,
               error |-> << >>, responseTime |-> 0]
        hdr(r, lines) == ReceiveHeaders([headers |-> r.headers,
                                         contentType |-> ""], lines).headers
    IN IF ~curl
       THEN [r0 EXCEPT !.statusCode = 200, !.body = BRIDGE_NO_CURL_BODY,
                       !.error = BRIDGE_NO_CURL_ERR]
       ELSE IF o.kind = "init_fail"
       THEN [r0 EXCEPT !.error = BRIDGE_INIT_ERR]
       ELSE IF o.kind = "exception"
       THEN [r0 EXCEPT !.error = WHAT_TEXT, !.responseTime = ms]
       ELSE LET received == [r0 EXCEPT !.headers = hdr(r0, o.hdrs),
                                       !.body = o.body,
                                       !.responseTime = ms]
            IN IF o.kind = "perform_fail"
               THEN [received EXCEPT !.error = CURL_STRERROR]
               ELSE [received EXCEPT !.statusCode = o.code]

NoBridge == [has |-> FALSE, transport |-> "none",
             response |-> [statusCode |-> 0, body |-> << >>, headers |-> << >>,
                           error |-> << >>, responseTime |-> 0]]

\* ------------------------------------------------------------ the wrapper
\* initConsole / initHttp install the bindings when there is a context
initConsole(w) == IF ~w.context THEN w ELSE [w EXCEPT !.console = TRUE]
initHttp(w) == IF ~w.context THEN w ELSE [w EXCEPT !.http = TRUE]

\* outcomes of the constructor: JS_NewRuntime or JS_NewContext may fail
CtorOutcomes == {"ok", "no_runtime", "no_context"}

\* the constructor with isValid set before the runtime and context exist
QuickJSContextWrapper_ValidFirst(outcome) ==
    LET w0 == [runtime |-> FALSE, context |-> FALSE, isValid |-> TRUE,
               mutex |-> NoThread, console |-> FALSE, http |-> FALSE,
               globals |-> NoGlobals]
    IN IF outcome = "ok"
       THEN [w0 EXCEPT !.runtime = TRUE, !.context = TRUE, !.console = TRUE,
                       !.http = TRUE]
       ELSE w0

\* QuickJSContextWrapper::QuickJSContextWrapper
QuickJSContextWrapper(outcome) ==
    LET w0 == [runtime |-> FALSE, context |-> FALSE, isValid |-> FALSE,
               mutex |-> NoThread, console |-> FALSE, http |-> FALSE,
               globals |-> NoGlobals]
    IN IF outcome = "no_runtime" THEN w0
       ELSE IF outcome = "no_context" THEN [w0 EXCEPT !.runtime = FALSE]
       ELSE [initHttp(initConsole([w0 EXCEPT !.runtime = TRUE,
                                             !.context = TRUE]))
               EXCEPT !.isValid = TRUE]


\* the transport outcomes met by the callers of the concurrent specification
CoreOutcomes ==
    {[kind |-> "init_fail", code |-> 0, body |-> << >>, hdrs |-> << >>],
     [kind |-> "ok", code |-> 200, body |-> BODY_TEXT,
      hdrs |-> << <<"Content-Type", "text/html">> >>]}

\* ------------------------------------------------- script values (QuickJS)
\* a JSValue given to a C function of the sandbox: undefined, a string, a
\* number, a symbol, or an object with own properties <<name, value>>.
\* A number is wraps * 2^32 + int32, with int32 a signed 32-bit value.
JS_UNDEFINED == [tag |-> "undefined", str |-> "", wraps |-> 0, int32 |-> 0,
                 props |-> << >>]
JS_NewString(s) == [JS_UNDEFINED EXCEPT !.tag = "string", !.str = s]
JS_NewNumber(w, n) == [JS_UNDEFINED EXCEPT !.tag = "number", !.wraps = w,
                                           !.int32 = n]
JS_NewSymbol == [JS_UNDEFINED EXCEPT !.tag = "symbol"]
JS_NewObject(p) == [JS_UNDEFINED EXCEPT !.tag = "object", !.props = p]

JS_IsObject(v) == v.tag = "object"

\* JS_GetPropertyStr: the own property, or undefined when there is none
JS_GetPropertyStr(obj, name) ==
    IF \E i \in 1..Len(obj.props) : obj.props[i][1] = name
    THEN obj.props[CHOOSE i \in 1..Len(obj.props) : obj.props[i][1] = name][2]
    ELSE JS_UNDEFINED

\* decimal text of a natural number
RECURSIVE NumText(_)
NumText(n) ==
    LET digit == <<"0", "1", "2", "3", "4", "5", "6", "7", "8", "9">>
    IN IF n < 10 THEN digit[n + 1]
       ELSE NumText(n \div 10) \o digit[(n % 10) + 1]

\* JS_ToCString: the text of any value but a symbol, for which it returns
\* NULL (isNull); the numbers scripts pass as text here are below 2^31
JS_ToCString(v) ==
    CASE v.tag = "string"    -> [isNull |-> FALSE, str |-> v.str]
      [] v.tag = "undefined" -> [isNull |-> FALSE, str |-> "undefined"]
      [] v.tag = "number"    ->
           [isNull |-> FALSE,
            str |-> IF v.int32 < 0 THEN "-" \o NumText(0 - v.int32)
                    ELSE NumText(v.int32)]
      [] v.tag = "object"    -> [isNull |-> FALSE, str |-> "[object Object]"]
      [] OTHER               -> [isNull |-> TRUE, str |-> ""]

\* JS_ToInt32: 0 on success with the value reduced modulo 2^32 to a signed
\* 32-bit integer (undefined, a string that is no number and an object give
\* 0), -1 with an exception for a symbol
JS_ToInt32(v) ==
    CASE v.tag = "number" -> [rc |-> 0, value |-> v.int32]
      [] v.tag = "symbol" -> [rc |-> -1, value |-> 0]
      [] OTHER            -> [rc |-> 0, value |-> 0]

\* ------------------------------------------- the HTTP functions of scripts
\* HttpRequest() of quickjs-android.cpp
NewHttpRequest == [url |-> "", method |-> "GET", data |-> "",
                   headers |-> << >>, timeout |-> 15000]

ACCEPT_DEFAULT == "application/json, text/plain, */*"
ACCEPT_LANGUAGE_DEFAULT == "zh-CN,zh;q=0.9,en;q=0.8"
CONTENT_TYPE_DEFAULT == "application/json; charset=UTF-8"

\* the loop over the own properties of a headers object:
\* request.headers[keyStr] = valueStr when both convert to text
RECURSIVE CopyHeaders(_, _)
CopyHeaders(headers, props) ==
    IF props = << >> THEN headers
    ELSE LET keyStr == JS_ToCString(JS_NewString(Head(props)[1]))
             valueStr == JS_ToCString(Head(props)[2])
         IN CopyHeaders(IF ~keyStr.isNull /\ ~valueStr.isNull
                        THEN MapPut(headers, keyStr.str, valueStr.str)
                        ELSE headers,
                        Tail(props))

\* the properties the functions set on the object they return
FOUR_FIELDS == {"status", "data", "contentType", "headers"}
STATUS_DATA == {"status", "data"}
STATUS_HEADERS == {"status", "headers"}

\* what a function does before it returns: throws a TypeError, or hands
\* request to performHttpRequest and sets the properties named in fields
\* on the object it returns
ThrowTypeError == [thrown |-> "TypeError", sent |-> FALSE,
                   request |-> NewHttpRequest, fields |-> {}]
Perform(request, fields) == [thrown |-> "none", sent |-> TRUE,
                             request |-> request, fields |-> fields]

\* js_http_get up to the call of performHttpRequest
js_http_get_build(argv) ==
    IF Len(argv) < 1 THEN ThrowTypeError
    ELSE LET url == JS_ToCString(argv[1])
             r1 == [NewHttpRequest EXCEPT
                      !.url = url.str, !.method = "GET", !.timeout = 15000,
                      !.headers = << <<"Accept", ACCEPT_DEFAULT>>,
                                     <<"Accept-Language", ACCEPT_LANGUAGE_DEFAULT>> >>]
         IN IF url.isNull THEN ThrowTypeError
            ELSE Perform(IF Len(argv) >= 2 /\ JS_IsObject(argv[2])
                         THEN [r1 EXCEPT !.headers =
                                 CopyHeaders(r1.headers, argv[2].props)]
                         ELSE r1,
                         FOUR_FIELDS)

\* js_http_post up to the call of performHttpRequest
js_http_post_build(argv) ==
    IF Len(argv) < 2 THEN ThrowTypeError
    ELSE LET url == JS_ToCString(argv[1])
             data == JS_ToCString(argv[2])
             r1 == [NewHttpRequest EXCEPT
                      !.url = url.str, !.method = "POST", !.data = data.str,
                      !.timeout = 15000,
                      !.headers = << <<"Accept", ACCEPT_DEFAULT>>,
                                     <<"Content-Type", CONTENT_TYPE_DEFAULT>>,
                                     <<"Accept-Language", ACCEPT_LANGUAGE_DEFAULT>> >>]
         IN IF url.isNull \/ data.isNull THEN ThrowTypeError
            ELSE Perform(IF Len(argv) >= 3 /\ JS_IsObject(argv[3])
                         THEN [r1 EXCEPT !.headers =
                                 CopyHeaders(r1.headers, argv[3].props)]
                         ELSE r1,
                         FOUR_FIELDS)

\* js_http_put up to the call of performHttpRequest
js_http_put_build(argv) ==
    IF Len(argv) < 2 THEN ThrowTypeError
    ELSE LET url == JS_ToCString(argv[1])
             data == JS_ToCString(argv[2])
         IN IF url.isNull \/ data.isNull THEN ThrowTypeError
            ELSE Perform([NewHttpRequest EXCEPT
                            !.url = url.str, !.method = "PUT",
                            !.data = data.str, !.timeout = 15000,
                            !.headers = << <<"Accept", ACCEPT_DEFAULT>>,
                                           <<"Content-Type", CONTENT_TYPE_DEFAULT>> >>],
                         STATUS_DATA)

\* js_http_delete up to the call of performHttpRequest
js_http_delete_build(argv) ==
    IF Len(argv) < 1 THEN ThrowTypeError
    ELSE LET url == JS_ToCString(argv[1])
         IN IF url.isNull THEN ThrowTypeError
            ELSE Perform([NewHttpRequest EXCEPT
                            !.url = url.str, !.method = "DELETE",
                            !.timeout = 15000],
                         STATUS_DATA)

\* js_http_head up to the call of performHttpRequest
js_http_head_build(argv) ==
    IF Len(argv) < 1 THEN ThrowTypeError
    ELSE LET url == JS_ToCString(argv[1])
         IN IF url.isNull THEN ThrowTypeError
            ELSE Perform([NewHttpRequest EXCEPT
                            !.url = url.str, !.method = "HEAD",
                            !.timeout = 15000],
                         STATUS_HEADERS)

\* the timeout option of httpRequest, accepted from 0 upwards
RequestTimeout_AcceptZero(timeoutVal, default) ==
    LET timeout == JS_ToInt32(timeoutVal)
    IN IF timeout.rc = 0 /\ timeout.value >= 0 THEN timeout.value ELSE default

\* the timeout option of httpRequest:
\* if (JS_ToInt32(ctx, &timeout, timeoutVal) == 0 && timeout > 0)
RequestTimeout(timeoutVal, default) ==
    LET timeout == JS_ToInt32(timeoutVal)
    IN IF timeout.rc = 0 /\ timeout.value > 0 THEN timeout.value ELSE default

\* js_http_request up to the call of performHttpRequest
js_http_request_build(argv) ==
    IF Len(argv) < 1 \/ ~JS_IsObject(argv[1]) THEN ThrowTypeError
    ELSE LET urlVal == JS_GetPropertyStr(argv[1], "url")
             methodVal == JS_GetPropertyStr(argv[1], "method")
             dataVal == JS_GetPropertyStr(argv[1], "data")
             headersVal == JS_GetPropertyStr(argv[1], "headers")
             timeoutVal == JS_GetPropertyStr(argv[1], "timeout")
             url == JS_ToCString(urlVal)
             method == JS_ToCString(methodVal)
             data == JS_ToCString(dataVal)
             r0 == NewHttpRequest
             r1 == [r0 EXCEPT !.url = url.str]
             r2 == IF ~method.isNull THEN [r1 EXCEPT !.method = method.str]
                   ELSE r1
             r3 == IF ~data.isNull THEN [r2 EXCEPT !.data = data.str] ELSE r2
             r4 == [r3 EXCEPT !.timeout = RequestTimeout(timeoutVal, r3.timeout)]
             r5 == IF JS_IsObject(headersVal)
                   THEN [r4 EXCEPT !.headers =
                           CopyHeaders(r4.headers, headersVal.props)]
                   ELSE r4
         IN IF url.isNull THEN ThrowTypeError
            ELSE Perform(r5, FOUR_FIELDS)

\* the object a function returns: the properties named in fields are set
\* from the HttpResponse, the others do not exist
ResponseObject(fields, response) ==
    [fields |-> fields,
     status |-> IF "status" \in fields THEN response.responseCode ELSE 0,
     data |-> IF "data" \in fields THEN response.data ELSE << >>,
     contentType |-> IF "contentType" \in fields THEN response.contentType
                     ELSE "",
     headers |-> IF "headers" \in fields THEN response.headers ELSE << >>]

NoJsCall == [name |-> "none", argv |-> << >>]
NoJsResult == [thrown |-> "none", sent |-> FALSE, request |-> NewHttpRequest,
               value |-> ResponseObject({}, NewHttpResponse)]

\* ---- what the scripts pass to the HTTP functions
URL_TEXT == "http://h/p"
UrlArgs == {JS_NewString(URL_TEXT), JS_NewSymbol}
DataArgs == {JS_NewString("{}"), JS_UNDEFINED}
HeaderArgs ==
    {JS_NewObject(<< >>),
     JS_NewObject(<< <<"X-Token", JS_NewString("t")>> >>),
     JS_NewObject(<< <<"Accept", JS_NewString("text/html")>>,
                     <<"X-Token", JS_NewString("t")>> >>)}

\* argv of a function (url, headers?)
UrlHeadersArgv ==
    {<< >>} \cup {<<u>> : u \in UrlArgs}
            \cup {<<u, h>> : u \in UrlArgs, h \in HeaderArgs \cup {JS_UNDEFINED}}
\* argv of a function (url, body, headers?)
UrlBodyHeadersArgv ==
    {<<u>> : u \in UrlArgs}
    \cup {<<u, d>> : u \in UrlArgs, d \in DataArgs}
    \cup {<<u, d, h>> : u \in UrlArgs, d \in DataArgs, h \in HeaderArgs}

\* a property of an options object, or none when value is NoProperty
NoProperty == [JS_UNDEFINED EXCEPT !.tag = "absent"]
Property(name, value) ==
    IF value = NoProperty THEN << >> ELSE << <<name, value>> >>

MethodArgs == {JS_NewString(m) : m \in {"GET", "POST", "PUT", "DELETE",
                                          "HEAD", "PATCH"}}
              \cup {JS_NewNumber(0, 5)}
\* 5000, 0, -3, 2^32 + 5 and -2^32 + 5
TimeoutArgs == {JS_NewNumber(0, 5000), JS_NewNumber(0, 0), JS_NewNumber(0, -3),
                JS_NewNumber(1, 5), JS_NewNumber(-1, 5)}

\* argv of httpRequest
OptionsArgv ==
    {<< >>, <<JS_NewString(URL_TEXT)>>}
    \cup {<<JS_NewObject(Property("url", u) \o Property("method", m)
                         \o Property("data", d) \o Property("headers", h)
                         \o Property("timeout", t))>> :
            u \in UrlArgs \cup {NoProperty},
            m \in MethodArgs \cup {NoProperty},
            d \in {JS_NewString("{}"), NoProperty},
            h \in {JS_NewObject(<< <<"Accept", JS_NewString("text/html")>>,
                                   <<"X-Token", JS_NewString("t")>> >>),
                   NoProperty},
            t \in TimeoutArgs \cup {NoProperty}}

\* ------------------------------------------------------------ spider-bridge
\* std::string::find(p) == 0 is BeginsWith; find(p) from position from, as
\* the index of the first occurrence at or after from, 0 when there is none
FindFrom(s, p, from) ==
    LET at == {i \in from..(Len(s) - Len(p) + 1) : SubSeq(s, i, i + Len(p) - 1) = p}
    IN IF at = {} THEN 0 ELSE CHOOSE i \in at : \A j \in at : i <= j

\* std::string::find_last_of(c): the last index of c, 0 when there is none
FindLastOf(s, c) ==
    LET at == {i \in 1..Len(s) : s[i] = c}
    IN IF at = {} THEN 0 ELSE CHOOSE i \in at : \A j \in at : i >= j

\* texts of makeAbsoluteUrl and of the patterns
HTTP == <<"h","t","t","p">>
HTTP_SCHEME == <<"h","t","t","p",":","/","/">>
HTTPS_SCHEME == <<"h","t","t","p","s",":","/","/">>

\* length of the text https?:// at position i of s, 0 when it is not there
SchemeAt(s, i) ==
    IF i + 7 <= Len(s) /\ SubSeq(s, i, i + 7) = HTTPS_SCHEME THEN 8
    ELSE IF i + 6 <= Len(s) /\ SubSeq(s, i, i + 6) = HTTP_SCHEME THEN 7
    ELSE 0

\* std::regex_search(baseUrl, match, R"(https?://[^/]+)"): the leftmost
\* scheme://host, the host running up to the next "/" or the end
DomainSearch(baseUrl) ==
    LET at == {i \in 1..Len(baseUrl) :
                 /\ SchemeAt(baseUrl, i) > 0
                 /\ i + SchemeAt(baseUrl, i) <= Len(baseUrl)
                 /\ baseUrl[i + SchemeAt(baseUrl, i)] # "/"}
        first == CHOOSE i \in at : \A j \in at : i <= j
        slash == FindFrom(baseUrl, <<"/">>, first + SchemeAt(baseUrl, first))
    IN IF at = {} THEN [found |-> FALSE, str |-> << >>]
       ELSE [found |-> TRUE,
             str |-> SubSeq(baseUrl, first,
                            IF slash = 0 THEN Len(baseUrl) ELSE slash - 1)]

\* makeAbsoluteUrl with the test for "/" made before the test for "//"
makeAbsoluteUrl_RootFirst(url, baseUrl) ==
    LET domain == DomainSearch(baseUrl)
        lastSlash == FindLastOf(baseUrl, "/")
    IN IF BeginsWith(url, HTTP) THEN url
       ELSE IF BeginsWith(url, <<"/">>) /\ domain.found THEN domain.str \o url
       ELSE IF BeginsWith(url, <<"/","/">>) THEN <<"h","t","t","p","s",":">> \o url
       ELSE IF lastSlash # 0 THEN SubSeq(baseUrl, 1, lastSlash) \o url
       ELSE url

\* SimpleSpiderEngine::makeAbsoluteUrl
makeAbsoluteUrl(url, baseUrl) ==
    LET domain == DomainSearch(baseUrl)
        lastSlash == FindLastOf(baseUrl, "/")
    IN IF BeginsWith(url, HTTP) THEN url
       ELSE IF BeginsWith(url, <<"/","/">>) THEN <<"h","t","t","p","s",":">> \o url
       ELSE IF BeginsWith(url, <<"/">>) /\ domain.found THEN domain.str \o url
       ELSE IF lastSlash # 0 THEN SubSeq(baseUrl, 1, lastSlash) \o url
       ELSE url


\* ---- the page
\* html is a sequence of attributes key="value" and elements <key>value</key>;
\* key "text" is a value that stands bare in the text, "img" is the src of
\* an <img>. A value holds no quote; the value of "text", "src", "img",
\* "poster", "url", "href" and "download" is a URL without white space, the
\* values of the other keys hold no URL. Each pattern has the keys in which
\* the text before its capture occurs.
\* std::regex(source): the ECMAScript grammar rejects a "(" without its
\* ")" with std::regex_error. depth is the number of groups open at the
\* end of the text, -1 once a ")" had no "(" (the patterns of this file
\* have no parenthesis inside a class or behind a backslash).
RECURSIVE OpenGroups(_, _)
OpenGroups(source, depth) ==
    IF source = << >> \/ depth < 0 THEN depth
    ELSE OpenGroups(Tail(source),
                    IF Head(source) = "(" THEN depth + 1
                    ELSE IF Head(source) = ")" THEN depth - 1
                    ELSE depth)

RegexCompiles_Always(source) == TRUE
RegexCompiles(source) == OpenGroups(source, 0) = 0

\* the patterns of extractPlayUrls, each with the text of its raw string
\* literal, the extension it asks for, and whether it asks for https?://
PlayPatterns ==
    <<[source |-> <<"(","h","t","t","p","s","?",":","/","/","[","^","\"","'","\\","s","]","+","\\",".","m","3","u","8","[","^","\"","'","\\","s","]","*",")">>,
      keys |-> <<"text", "src", "img", "poster", "url", "href", "download">>, ext |-> <<".","m","3","u","8">>, scheme |-> TRUE, element |-> FALSE],
      [source |-> <<"(","h","t","t","p","s","?",":","/","/","[","^","\"","'","\\","s","]","+","\\",".","m","p","4","[","^","\"","'","\\","s","]","*",")">>,
      keys |-> <<"text", "src", "img", "poster", "url", "href", "download">>, ext |-> <<".","m","p","4">>, scheme |-> TRUE, element |-> FALSE],
      [source |-> <<"(","h","t","t","p","s","?",":","/","/","[","^","\"","'","\\","s","]","+","\\",".","f","l","v","[","^","\"","'","\\","s","]","*",")">>,
      keys |-> <<"text", "src", "img", "poster", "url", "href", "download">>, ext |-> <<".","f","l","v">>, scheme |-> TRUE, element |-> FALSE],
      [source |-> <<"(","h","t","t","p","s","?",":","/","/","[","^","\"","'","\\","s","]","+","\\",".","a","v","i","[","^","\"","'","\\","s","]","*",")">>,
      keys |-> <<"text", "src", "img", "poster", "url", "href", "download">>, ext |-> <<".","a","v","i">>, scheme |-> TRUE, element |-> FALSE],
      [source |-> <<"(","h","t","t","p","s","?",":","/","/","[","^","\"","'","\\","s","]","+","\\",".","m","k","v","[","^","\"","'","\\","s","]","*",")">>,
      keys |-> <<"text", "src", "img", "poster", "url", "href", "download">>, ext |-> <<".","m","k","v">>, scheme |-> TRUE, element |-> FALSE],
      [source |-> <<"s","r","c","=","[","\"","'","]","(","[","^","\"","'","]","+","\\",".","m","3","u","8","[","^","\"","'","]","*",")">>,
      keys |-> <<"src", "img">>, ext |-> <<".","m","3","u","8">>, scheme |-> FALSE, element |-> FALSE],
      [source |-> <<"s","r","c","=","[","\"","'","]","(","[","^","\"","'","]","+","\\",".","m","p","4","[","^","\"","'","]","*",")">>,
      keys |-> <<"src", "img">>, ext |-> <<".","m","p","4">>, scheme |-> FALSE, element |-> FALSE],
      [source |-> <<"u","r","l","[","\"","\\","s","]","*","[",":","=","]","[","\"","\\","s","]","*","[","\"","'","]","(","[","^","\"","'","]","+","\\",".","m","3","u","8","[","^","\"","'","]","*",")">>,
      keys |-> <<"url">>, ext |-> <<".","m","3","u","8">>, scheme |-> FALSE, element |-> FALSE],
      [source |-> <<"u","r","l","[","\"","\\","s","]","*","[",":","=","]","[","\"","\\","s","]","*","[","\"","'","]","(","[","^","\"","'","]","+","\\",".","m","p","4","[","^","\"","'","]","*",")">>,
      keys |-> <<"url">>, ext |-> <<".","m","p","4">>, scheme |-> FALSE, element |-> FALSE] >>

\* the patterns of extractDownloadUrls (the raw string literals of the
\* three href patterns end before the ")" of their group)
DownloadPatterns ==
    <<[source |-> <<"d","o","w","n","l","o","a","d","[","\"","\\","s","]","*","[",":","=","]","[","\"","\\","s","]","*","[","\"","'","]","(","[","^","\"","'","]","+",")">>,
      keys |-> <<"download">>, ext |-> << >>, scheme |-> FALSE, element |-> FALSE],
      [source |-> <<"h","r","e","f","=","[","\"","'","]","(","[","^","\"","'","]","+","\\",".","m","p","4","[","^","\"","'","]","*">>,
      keys |-> <<"href">>, ext |-> <<".","m","p","4">>, scheme |-> FALSE, element |-> FALSE],
      [source |-> <<"h","r","e","f","=","[","\"","'","]","(","[","^","\"","'","]","+","\\",".","a","v","i","[","^","\"","'","]","*">>,
      keys |-> <<"href">>, ext |-> <<".","a","v","i">>, scheme |-> FALSE, element |-> FALSE],
      [source |-> <<"h","r","e","f","=","[","\"","'","]","(","[","^","\"","'","]","+","\\",".","m","k","v","[","^","\"","'","]","*">>,
      keys |-> <<"href">>, ext |-> <<".","m","k","v">>, scheme |-> FALSE, element |-> FALSE] >>

\* match[1] of pattern p in one attribute or element: [matched, str]; an
\* element pattern captures [^<]+ up to the closing tag
Capture(p, item) ==
    LET v == item.value
        none == [matched |-> FALSE, str |-> << >>]
        \* the places where https?:// begins with a character and then
        \* the extension behind it
        starts == {i \in 1..Len(v) :
                     /\ SchemeAt(v, i) > 0
                     /\ FindFrom(v, p.ext, i + SchemeAt(v, i) + 1) # 0}
    IN IF \A k \in 1..Len(p.keys) : p.keys[k] # item.key THEN none
       ELSE IF p.element
       THEN IF Len(v) >= 1 /\ FindFrom(v, <<"<">>, 1) = 0
            THEN [matched |-> TRUE, str |-> v]
            ELSE none
       ELSE IF p.scheme
       THEN IF starts = {} THEN none
            ELSE [matched |-> TRUE,
                  str |-> SubSeq(v, CHOOSE i \in starts : \A j \in starts : i <= j,
                                 Len(v))]
       ELSE IF Len(v) >= 1 /\ (p.ext = << >> \/ FindFrom(v, p.ext, 2) # 0)
       THEN [matched |-> TRUE, str |-> v]
       ELSE none

\* if (std::find(urls.begin(), urls.end(), url) == urls.end())
Found(urls, url) == \E i \in 1..Len(urls) : urls[i] = url

\* the loop of extractPlayUrls with every match pushed
RECURSIVE PlayMatches_NoFind(_, _, _)
PlayMatches_NoFind(urls, p, html) ==
    IF html = << >> THEN urls
    ELSE LET m == Capture(p, Head(html))
         IN PlayMatches_NoFind(IF m.matched THEN Append(urls, m.str) ELSE urls,
                               p, Tail(html))

\* the loop of extractPlayUrls over the matches of one pattern
RECURSIVE PlayMatches(_, _, _)
PlayMatches(urls, p, html) ==
    IF html = << >> THEN urls
    ELSE LET m == Capture(p, Head(html))
         IN PlayMatches(IF m.matched /\ ~Found(urls, m.str)
                        THEN Append(urls, m.str) ELSE urls,
                        p, Tail(html))

\* the loop of extractDownloadUrls over the matches of one pattern: the
\* match is looked up as captured and pushed as resolved
RECURSIVE DownloadMatches(_, _, _, _)
DownloadMatches(urls, p, html, baseUrl) ==
    IF html = << >> THEN urls
    ELSE LET m == Capture(p, Head(html))
         IN DownloadMatches(IF m.matched /\ ~Found(urls, m.str)
                            THEN Append(urls, makeAbsoluteUrl(m.str, baseUrl))
                            ELSE urls,
                            p, Tail(html), baseUrl)

\* the patterns of extractThumbnail
ThumbnailPatterns ==
    <<[source |-> <<"<","i","m","g","[","^",">","]","+","s","r","c","=","[","\"","'","]","(","[","^","\"","'","]","+",")">>,
      keys |-> <<"img">>, ext |-> << >>, scheme |-> FALSE, element |-> FALSE],
      [source |-> <<"p","o","s","t","e","r","=","[","\"","'","]","(","[","^","\"","'","]","+",")">>,
      keys |-> <<"poster">>, ext |-> << >>, scheme |-> FALSE, element |-> FALSE],
      [source |-> <<"t","h","u","m","b","n","a","i","l","[","\"","\\","s","]","*","[",":","=","]","[","\"","\\","s","]","*","[","\"","'","]","(","[","^","\"","'","]","+",")">>,
      keys |-> <<"thumbnail">>, ext |-> << >>, scheme |-> FALSE, element |-> FALSE],
      [source |-> <<"c","o","v","e","r","[","\"","\\","s","]","*","[",":","=","]","[","\"","\\","s","]","*","[","\"","'","]","(","[","^","\"","'","]","+",")">>,
      keys |-> <<"cover">>, ext |-> << >>, scheme |-> FALSE, element |-> FALSE] >>

\* the patterns of extractTitle; an element pattern captures [^<]+ up to
\* the closing tag, a key pattern captures the value
TitlePatterns ==
    <<[source |-> <<"<","t","i","t","l","e","[","^",">","]","*",">","(","[","^","<","]","+",")","<","/","t","i","t","l","e",">">>,
      keys |-> <<"<title>">>, ext |-> << >>, scheme |-> FALSE, element |-> TRUE],
      [source |-> <<"<","h","1","[","^",">","]","*",">","(","[","^","<","]","+",")","<","/","h","1",">">>,
      keys |-> <<"<h1>">>, ext |-> << >>, scheme |-> FALSE, element |-> TRUE],
      [source |-> <<"<","h","2","[","^",">","]","*",">","(","[","^","<","]","+",")","<","/","h","2",">">>,
      keys |-> <<"<h2>">>, ext |-> << >>, scheme |-> FALSE, element |-> TRUE],
      [source |-> <<"t","i","t","l","e","[","\"","\\","s","]","*","[",":","=","]","[","\"","\\","s","]","*","[","\"","'","]","(","[","^","\"","'","]","+",")">>,
      keys |-> <<"title">>, ext |-> << >>, scheme |-> FALSE, element |-> FALSE],
      [source |-> <<"n","a","m","e","[","\"","\\","s","]","*","[",":","=","]","[","\"","\\","s","]","*","[","\"","'","]","(","[","^","\"","'","]","+",")">>,
      keys |-> <<"name">>, ext |-> << >>, scheme |-> FALSE, element |-> FALSE] >>

\* the patterns of extractMetadata, each with the field it fills; the
\* values of these keys hold no comma and no white space
MetadataPatterns ==
    <<[source |-> <<"d","u","r","a","t","i","o","n","[","\"","\\","s","]","*","[",":","=","]","[","\"","\\","s","]","*","[","\"","'","]","?","(","[","^","\"","'",",","\\","s","]","+",")">>,
      keys |-> {"duration"}, ext |-> << >>, scheme |-> FALSE, element |-> FALSE, first |-> "duration"],
      [source |-> <<"q","u","a","l","i","t","y","[","\"","\\","s","]","*","[",":","=","]","[","\"","\\","s","]","*","[","\"","'","]","?","(","[","^","\"","'",",","\\","s","]","+",")">>,
      keys |-> {"quality"}, ext |-> << >>, scheme |-> FALSE, element |-> FALSE, first |-> "quality"],
      [source |-> <<"f","o","r","m","a","t","[","\"","\\","s","]","*","[",":","=","]","[","\"","\\","s","]","*","[","\"","'","]","?","(","[","^","\"","'",",","\\","s","]","+",")">>,
      keys |-> {"format"}, ext |-> << >>, scheme |-> FALSE, element |-> FALSE, first |-> "format"],
      [source |-> <<"s","i","z","e","[","\"","\\","s","]","*","[",":","=","]","[","\"","\\","s","]","*","[","\"","'","]","?","(","[","^","\"","'",",","\\","s","]","+",")">>,
      keys |-> {"size"}, ext |-> << >>, scheme |-> FALSE, element |-> FALSE, first |-> "size"],
      [source |-> <<"b","i","t","r","a","t","e","[","\"","\\","s","]","*","[",":","=","]","[","\"","\\","s","]","*","[","\"","'","]","?","(","[","^","\"","'",",","\\","s","]","+",")">>,
      keys |-> {"bitrate"}, ext |-> << >>, scheme |-> FALSE, element |-> FALSE, first |-> "bitrate"],
      [source |-> <<"f","p","s","[","\"","\\","s","]","*","[",":","=","]","[","\"","\\","s","]","*","[","\"","'","]","?","(","[","^","\"","'",",","\\","s","]","+",")">>,
      keys |-> {"fps"}, ext |-> << >>, scheme |-> FALSE, element |-> FALSE, first |-> "fps"] >>

\* the construction of a vector of patterns throws when one does not compile
Throws(patterns) == \E i \in 1..Len(patterns) : ~RegexCompiles(patterns[i].source)

\* which steps throw std::regex_error while they build their patterns: the
\* lists are literals, so a step throws on every call or on none
PatternsThrow ==
    [title |-> Throws(TitlePatterns), thumbnail |-> Throws(ThumbnailPatterns),
     play |-> Throws(PlayPatterns), download |-> Throws(DownloadPatterns),
     metadata |-> Throws(MetadataPatterns)]

\* SimpleSpiderEngine::extractPlayUrls: [threw, urls]
RECURSIVE PlayLoop(_, _, _)
PlayLoop(urls, patterns, html) ==
    IF patterns = << >> THEN urls
    ELSE PlayLoop(PlayMatches(urls, Head(patterns), html), Tail(patterns), html)

extractPlayUrls(html) ==
    IF PatternsThrow.play THEN [threw |-> TRUE, urls |-> << >>]
    ELSE [threw |-> FALSE, urls |-> PlayLoop(<< >>, PlayPatterns, html)]

\* SimpleSpiderEngine::extractDownloadUrls: [threw, urls]
RECURSIVE DownloadLoop(_, _, _, _)
DownloadLoop(urls, patterns, html, baseUrl) ==
    IF patterns = << >> THEN urls
    ELSE DownloadLoop(DownloadMatches(urls, Head(patterns), html, baseUrl),
                      Tail(patterns), html, baseUrl)

extractDownloadUrls(html, baseUrl) ==
    IF PatternsThrow.download THEN [threw |-> TRUE, urls |-> << >>]
    ELSE [threw |-> FALSE,
          urls |-> DownloadLoop(<< >>, DownloadPatterns, html, baseUrl)]


\* std::regex_search(html, match, pattern): the first match of p in html
RECURSIVE FirstMatch(_, _)
FirstMatch(p, html) ==
    IF html = << >> THEN [matched |-> FALSE, str |-> << >>]
    ELSE IF Capture(p, Head(html)).matched THEN Capture(p, Head(html))
    ELSE FirstMatch(p, Tail(html))

\* isImageUrl: R"(\.(jpg|jpeg|png|gif|bmp|webp)(\?|$))" somewhere in url
IMAGE_EXTENSIONS == {<<".","j","p","g">>, <<".","j","p","e","g">>, <<".","p","n","g">>, <<".","g","i","f">>, <<".","b","m","p">>, <<".","w","e","b","p">>}
isImageUrl(url) ==
    \E e \in IMAGE_EXTENSIONS, i \in 1..Len(url) :
        /\ i + Len(e) - 1 <= Len(url)
        /\ SubSeq(url, i, i + Len(e) - 1) = e
        /\ (i + Len(e) - 1 = Len(url) \/ url[i + Len(e)] = "?")

\* SimpleSpiderEngine::extractThumbnail: [threw, str]
RECURSIVE ThumbnailLoop(_, _, _)
ThumbnailLoop(patterns, html, baseUrl) ==
    IF patterns = << >> THEN << >>
    ELSE LET m == FirstMatch(Head(patterns), html)
         IN IF m.matched /\ isImageUrl(m.str)
            THEN makeAbsoluteUrl(m.str, baseUrl)
            ELSE ThumbnailLoop(Tail(patterns), html, baseUrl)

extractThumbnail(html, baseUrl) ==
    IF PatternsThrow.thumbnail THEN [threw |-> TRUE, str |-> << >>]
    ELSE [threw |-> FALSE, str |-> ThumbnailLoop(ThumbnailPatterns, html, baseUrl)]

\* stripHtmlTags: std::regex_replace(html, "<[^>]*>", "")
RECURSIVE stripHtmlTags(_)
stripHtmlTags(text) ==
    IF text = << >> THEN << >>
    ELSE LET close == FindFrom(text, <<">">>, 2)
         IN IF Head(text) = "<" /\ close # 0
            THEN stripHtmlTags(SubSeq(text, close + 1, Len(text)))
            ELSE <<Head(text)>> \o stripHtmlTags(Tail(text))

\* trim: without the leading and trailing " \t\r\n"
WHITE_SPACE == {" ", "\t", "\r", "\n"}
\* trim that leaves the trailing white space
trim_LeadingOnly(str) ==
    LET black == {i \in 1..Len(str) : str[i] \notin WHITE_SPACE}
    IN IF black = {} THEN << >>
       ELSE SubSeq(str, CHOOSE i \in black : \A j \in black : i <= j, Len(str))

trim(str) ==
    LET black == {i \in 1..Len(str) : str[i] \notin WHITE_SPACE}
    IN IF black = {} THEN << >>
       ELSE SubSeq(str, CHOOSE i \in black : \A j \in black : i <= j,
                   CHOOSE i \in black : \A j \in black : i >= j)

\* the default title of line 109, four characters in twelve UTF-8 bytes, each
\* byte written as its two hexadecimal digits
UNKNOWN_TITLE == <<"E6","9C","AA", "E7","9F","A5", "E6","A0","87", "E9","A2","98">>

\* SimpleSpiderEngine::extractTitle: [threw, str]
RECURSIVE TitleLoop(_, _)
TitleLoop(patterns, html) ==
    IF patterns = << >> THEN UNKNOWN_TITLE
    ELSE LET m == FirstMatch(Head(patterns), html)
             title == trim(stripHtmlTags(m.str))
         IN IF m.matched /\ title # << >> /\ Len(title) > 2 THEN title
            ELSE TitleLoop(Tail(patterns), html)

extractTitle(html) ==
    IF PatternsThrow.title
    THEN [threw |-> TRUE, str |-> << >>]
    ELSE [threw |-> FALSE, str |-> TitleLoop(TitlePatterns, html)]


\* SimpleSpiderEngine::extractMetadata: [threw, map]
RECURSIVE MetadataLoop(_, _, _)
MetadataLoop(metadata, patterns, html) ==
    IF patterns = << >> THEN metadata
    ELSE LET m == FirstMatch(Head(patterns), html)
         IN MetadataLoop(IF m.matched
                         THEN MapPut(metadata, Head(patterns).first, m.str)
                         ELSE metadata,
                         Tail(patterns), html)

extractMetadata(html) ==
    IF PatternsThrow.metadata THEN [threw |-> TRUE, map |-> << >>]
    ELSE [threw |-> FALSE, map |-> MetadataLoop(<< >>, MetadataPatterns, html)]

\* SpiderResult as the compiler constructs it: empty texts and collections;
\* parseTime has no initialiser and is set on every path that returns one
NewSpiderResult ==
    [url |-> << >>, title |-> << >>, content |-> << >>, thumbnail |-> << >>,
     metadata |-> << >>, playUrls |-> << >>, downloadUrls |-> << >>,
     parseTime |-> 0, error |-> << >>]

\* e.what() of std::regex_error, as the library words it
REGEX_WHAT == <<"r","e","g","e","x","_","e","r","r","o","r">>

NoSpiderCall == [name |-> "none", url |-> << >>, html |-> << >>,
                 candidate |-> << >>]
NoSpiderResult == [kind |-> "none", result |-> NewSpiderResult, text |-> << >>]

\* ---- what the host passes to spider-bridge
\* the most attributes and elements of a page
MaxItems == 2

BaseUrls == {<<"h","t","t","p","s",":","/","/","x",".","c","o","m","/","c","/","d">>,
             <<"h","t","t","p","s",":","/","/","x",".","c","o","m","/","c","/","d","/">>,
             <<"h","t","t","p","s",":","/","/","x",".","c","o","m">>,
             <<"x",".","c","o","m">>,
             <<"r","?","u","=","h","t","t","p",":","/","/","y","/","z">>}

Candidates == {<<"/","a","/","b",".","m","p","4">>,
               <<"e",".","m","p","4">>,
               <<"/","/","c","d","n",".","c","o","m","/","f",".","m","p","4">>,
               <<"h","t","t","p","s",":","/","/","y",".","c","o","m","/","g",".","m","p","4">>,
               <<"h","t","t","p",".","m","p","4">>}

\* a text a read of a released buffer may yield
GarbageUrls == {<<"?">>}

\* the urls of the pages given to nativeParse and nativeExtractPlayUrls
PageUrls == {<<"h","t","t","p","s",":","/","/","x",".","c","o","m","/","c","/","d">>,
             <<"x",".","c","o","m">>}

Items ==
    {[key |-> "src", value |-> <<"h","t","t","p","s",":","/","/","c",".","t","/","v",".","m","3","u","8">>],
     [key |-> "text", value |-> <<"h","t","t","p","s",":","/","/","c",".","t","/","v",".","m","3","u","8">>],
     [key |-> "src", value |-> <<"/","v","/","a",".","m","p","4">>],
     [key |-> "download", value |-> <<"/","d","/","a",".","m","p","4">>],
     [key |-> "href", value |-> <<"/","d","/","a",".","m","p","4">>],
     [key |-> "img", value |-> <<"/","i","/","p",".","j","p","g">>]}

RECURSIVE PagesOf(_)
PagesOf(n) ==
    IF n = 0 THEN {<< >>}
    ELSE PagesOf(n - 1) \cup
         {Append(page, item) : page \in PagesOf(n - 1), item \in Items}

Pages == PagesOf(MaxItems)

\* elements and key-value tokens a title may come from
TitleItems ==
    {[key |-> "<title>", value |-> <<" ","D","e","m","o"," ">>],
     [key |-> "<title>", value |-> <<"a","b">>],
     [key |-> "<h1>", value |-> <<"H","e","a","d">>],
     [key |-> "<h1>", value |-> <<"<","b",">","B","i","g","<","/","b",">">>],
     [key |-> "<h2>", value |-> <<" ","x"," ">>],
     [key |-> "<h2>", value |-> <<"S","u","b","2">>],
     [key |-> "title", value |-> <<"<","i",">","K","e","y","<","/","i",">","\n">>],
     [key |-> "title", value |-> <<" "," ">>],
     [key |-> "name", value |-> <<"v","i","e","w","p","o","r","t">>],
     [key |-> "name", value |-> <<"a","<","b",">">>]}

RECURSIVE TitlePagesOf(_)
TitlePagesOf(n) ==
    IF n = 0 THEN {<< >>}
    ELSE TitlePagesOf(n - 1) \cup
         {Append(page, item) : page \in TitlePagesOf(n - 1), item \in TitleItems}

TitlePages == TitlePagesOf(MaxItems)


\* ------------------------------------------------------------------ Init
\* the state of the process when the library is loaded
InitRegistry ==
    /\ g_contexts = << >>
    /\ g_contexts_mutex = NoThread
    /\ g_next_context_id = 1
    /\ pc = [t \in Threads |-> "idle"]
    /\ op = [t \in Threads |-> NoOp]
    /\ ret = [t \in Threads |-> NoRet]
    /\ resp = [t \in Threads |-> NoResp]
    /\ bridge = NoBridge
    /\ crashed = FALSE
    /\ issued = << >>
    /\ destroyedIds = {}
    /\ jsCall = NoJsCall
    /\ jsResult = NoJsResult
    /\ spiderCall = NoSpiderCall
    /\ spiderResult = NoSpiderResult

\* quickjs-android.cpp compiles only with HAVE_CURL (HttpRequest is declared
\* under it), so the registry with several callers is a libcurl build
Init == InitRegistry /\ haveCurl = TRUE

\* either build, for the one-caller specification
InitOneCaller == InitRegistry /\ haveCurl \in BOOLEAN

\* ------------------------------------------------------------ the callers
\* what stays of a call once it has returned: its locals are gone.
\* afterDestroy is history: the context of the call had been destroyed
\* when the call looked it up.
Returned(o) == [NoOp EXCEPT !.name = o.name, !.afterDestroy = o.afterDestroy]

\* the four entry points that look a context up
ContextOps == {"nativeEvaluateScript", "nativeCallFunction",
               "nativeHasFunction", "nativeGetMemoryUsage"}
ScriptOps == {"nativeEvaluateScript", "nativeCallFunction"}

\* a thread enters a JNI function of the registry and reaches its
\* lock_guard on g_contexts_mutex
Call(t) ==
    /\ ~crashed
    /\ pc[t] \in {"idle", "done"}
    /\ \/ /\ g_next_context_id <= MaxId
          /\ op' = [op EXCEPT ![t] = [NoOp EXCEPT !.name = "createJSContext"]]
       \/ \E n \in ContextOps \cup {"destroyJSContext"}, id \in ContextIds :
            op' = [op EXCEPT ![t] =
                     [NoOp EXCEPT !.name = n, !.context_id = id]]
    /\ pc' = [pc EXCEPT ![t] = "wait"]
    /\ ret' = [ret EXCEPT ![t] = NoRet]
    /\ UNCHANGED <<g_contexts, g_contexts_mutex, g_next_context_id, resp,
                   bridge, haveCurl, crashed, issued, destroyedIds>>
    /\ UNCHANGED <<scriptHttpVars, spiderVars>>

\* ------------------------------------------------------------- the registry
\* g_contexts[contextId] = std::move(context)
MapInsert(m, id, w) ==
    [i \in (DOMAIN m) \cup {id} |-> IF i = id THEN w ELSE m[i]]

\* g_contexts.erase(it)
MapErase_All(m, id) == << >>
MapErase(m, id) == [i \in (DOMAIN m) \ {id} |-> m[i]]

\* contextId = g_next_context_id++ : the id given to a valid context
NextId_Reuse(next, m) ==
    CHOOSE i \in 1..next : i \notin DOMAIN m /\ \A j \in 1..(i - 1) : j \in DOMAIN m
NextId(next, m) == next

\* createJSContext: the whole body runs under the registry lock
createJSContext(t) ==
    /\ ~crashed
    /\ pc[t] = "wait" /\ op[t].name = "createJSContext"
    /\ MutexFree(g_contexts_mutex)
    /\ \E outcome \in CtorOutcomes \cup {"bad_alloc"} :
         IF outcome = "bad_alloc"
         THEN /\ ret' = [ret EXCEPT ![t] = LongRet(0)]
              /\ UNCHANGED <<g_contexts, g_next_context_id, issued>>
         ELSE LET context == QuickJSContextWrapper(outcome)
                  contextId == NextId(g_next_context_id, g_contexts)
              IN IF ~context.isValid
                 THEN /\ ret' = [ret EXCEPT ![t] = LongRet(0)]
                      /\ UNCHANGED <<g_contexts, g_next_context_id, issued>>
                 ELSE /\ g_next_context_id' = g_next_context_id + 1
                      /\ g_contexts' = MapInsert(g_contexts, contextId, context)
                      /\ issued' = Append(issued, contextId)
                      /\ ret' = [ret EXCEPT ![t] = LongRet(contextId)]
    /\ pc' = [pc EXCEPT ![t] = "done"]
    /\ op' = [op EXCEPT ![t] = Returned(op[t])]
    /\ UNCHANGED <<g_contexts_mutex, resp, bridge, haveCurl, crashed,
                   destroyedIds>>
    /\ UNCHANGED <<scriptHttpVars, spiderVars>>

\* destroyJSContext: the whole body runs under the registry lock
destroyJSContext(t) ==
    /\ ~crashed
    /\ pc[t] = "wait" /\ op[t].name = "destroyJSContext"
    /\ MutexFree(g_contexts_mutex)
    /\ IF op[t].context_id \in DOMAIN g_contexts
       THEN /\ g_contexts' = MapErase(g_contexts, op[t].context_id)
            /\ destroyedIds' = destroyedIds \cup {op[t].context_id}
       ELSE UNCHANGED <<g_contexts, destroyedIds>>
    /\ pc' = [pc EXCEPT ![t] = "done"]
    /\ op' = [op EXCEPT ![t] = Returned(op[t])]
    /\ ret' = [ret EXCEPT ![t] = VoidRet]
    /\ UNCHANGED <<g_contexts_mutex, g_next_context_id, resp, bridge,
                   haveCurl, crashed, issued>>
    /\ UNCHANGED <<scriptHttpVars, spiderVars>>

\* what each entry point returns when find() fails
NotFoundRet(name) ==
    CASE name \in ScriptOps -> StringRet(ERR_NOT_FOUND)
      [] name = "nativeHasFunction" -> BoolRet(FALSE)
      [] name = "nativeGetMemoryUsage" -> LongRet(-1)

\* the wrapper of the call of thread t
Wrapper(t) == g_contexts[op[t].context_id]

\* ~lock_guard of ctxLock
UnlockContext(m, id) ==
    IF id \in DOMAIN m THEN [m EXCEPT ![id].mutex = NoThread] ELSE m

\* the arguments of a call besides the context id; the entry points read
\* them only under the locks, so they are drawn when the lock is taken
Arguments(o, scripts, argsJson) ==
    CASE o.name = "nativeEvaluateScript" ->
           {[o EXCEPT !.script = s] : s \in scripts}
      [] o.name = "nativeCallFunction" ->
           {[o EXCEPT !.funcName = f, !.args = a] :
              f \in FuncNames, a \in argsJson}
      [] o.name = "nativeHasFunction" ->
           {[o EXCEPT !.funcName = f] : f \in FuncNames}
      [] OTHER -> {o}

\* lock_guard on g_contexts_mutex, then g_contexts.find(context_id)
Lookup(t, scripts, argsJson) ==
    /\ ~crashed
    /\ pc[t] = "wait" /\ op[t].name \in ContextOps
    /\ MutexFree(g_contexts_mutex)
    /\ IF op[t].context_id \notin DOMAIN g_contexts
       THEN /\ pc' = [pc EXCEPT ![t] = "done"]
            /\ ret' = [ret EXCEPT ![t] = NotFoundRet(op[t].name)]
            /\ op' = [op EXCEPT ![t] =
                        [Returned(op[t]) EXCEPT !.afterDestroy =
                                         (op[t].context_id \in destroyedIds)]]
            /\ UNCHANGED g_contexts_mutex
       ELSE /\ pc' = [pc EXCEPT ![t] = "found"]
            /\ g_contexts_mutex' = t
            /\ \E o \in Arguments(op[t], scripts, argsJson) :
                 op' = [op EXCEPT ![t] =
                          [o EXCEPT !.afterDestroy =
                                    (op[t].context_id \in destroyedIds)]]
            /\ UNCHANGED ret
    /\ UNCHANGED <<g_contexts, g_next_context_id, resp, bridge, haveCurl,
                   crashed, issued, destroyedIds>>
    /\ UNCHANGED <<scriptHttpVars, spiderVars>>

\* a return from inside both lock_guards: both locks are released
Return(t, r) ==
    /\ pc' = [pc EXCEPT ![t] = "done"]
    /\ ret' = [ret EXCEPT ![t] = r]
    /\ op' = [op EXCEPT ![t] = Returned(op[t])]
    /\ resp' = [resp EXCEPT ![t] = NoResp]
    /\ g_contexts_mutex' = NoThread
    /\ g_contexts' = UnlockContext(g_contexts, op[t].context_id)
    /\ UNCHANGED crashed

\* the process dies in the middle of the call of t
Fault(t) ==
    /\ crashed' = TRUE
    /\ pc' = [pc EXCEPT ![t] = "fault"]
    /\ UNCHANGED <<g_contexts, g_contexts_mutex, op, ret, resp>>

\* JS_Eval / JS_Call starts under the lock of the wrapper
StartScript(t, program) ==
    /\ g_contexts' = [g_contexts EXCEPT ![op[t].context_id].mutex = t]
    /\ op' = [op EXCEPT ![t].script = program]
    /\ pc' = [pc EXCEPT ![t] = "run"]
    /\ UNCHANGED <<g_contexts_mutex, ret, resp, crashed>>

\* nativeEvaluateScript from the lock of the wrapper to the start of JS_Eval
nativeEvaluateScript(t) ==
    /\ ~crashed
    /\ pc[t] = "found" /\ op[t].name = "nativeEvaluateScript"
    /\ op[t].context_id \in DOMAIN g_contexts
    /\ MutexFree(Wrapper(t).mutex)
    /\ IF ~Wrapper(t).isValid
       THEN Return(t, StringRet(ERR_INVALID))
       ELSE StartScript(t, op[t].script)
    /\ UNCHANGED <<g_next_context_id, bridge, haveCurl, issued, destroyedIds>>
    /\ UNCHANGED <<scriptHttpVars, spiderVars>>

\* nativeCallFunction from the lock of the wrapper to the start of JS_Call.
\* The text of the function-not-found result is built from funcName after
\* ReleaseStringUTFChars: the read yields the name, another text, or faults.
nativeCallFunction(t) ==
    /\ ~crashed
    /\ pc[t] = "found" /\ op[t].name = "nativeCallFunction"
    /\ op[t].context_id \in DOMAIN g_contexts
    /\ MutexFree(Wrapper(t).mutex)
    /\ IF ~Wrapper(t).isValid
       THEN Return(t, StringRet(ERR_INVALID))
       ELSE IF Wrapper(t).globals[op[t].funcName] = "undefined"
       THEN \/ \E read \in {op[t].funcName} \cup GarbageNames :
                 Return(t, StringRet(ERR_FUNC_NOT_FOUND \o read))
            \/ Fault(t)
       ELSE IF op[t].args = "invalid"
       THEN Return(t, StringRet(ERR_BAD_JSON))
       ELSE StartScript(t, op[t].args)
    /\ UNCHANGED <<g_next_context_id, bridge, haveCurl, issued, destroyedIds>>
    /\ UNCHANGED <<scriptHttpVars, spiderVars>>

\* nativeHasFunction from the lock of the wrapper to its return; the last
\* log line reads funcName after ReleaseStringUTFChars
nativeHasFunction(t) ==
    /\ ~crashed
    /\ pc[t] = "found" /\ op[t].name = "nativeHasFunction"
    /\ op[t].context_id \in DOMAIN g_contexts
    /\ MutexFree(Wrapper(t).mutex)
    /\ IF ~Wrapper(t).isValid
       THEN Return(t, BoolRet(FALSE))
       ELSE \/ Return(t, BoolRet(Wrapper(t).globals[op[t].funcName] # "undefined"))
            \/ Fault(t)
    /\ UNCHANGED <<g_next_context_id, bridge, haveCurl, issued, destroyedIds>>
    /\ UNCHANGED <<scriptHttpVars, spiderVars>>

\* memory_used_size of a live runtime, as JS_ComputeMemoryUsage reports it
MemoryUsed == {1024}

\* nativeGetMemoryUsage from the lock of the wrapper to its return
nativeGetMemoryUsage(t) ==
    /\ ~crashed
    /\ pc[t] = "found" /\ op[t].name = "nativeGetMemoryUsage"
    /\ op[t].context_id \in DOMAIN g_contexts
    /\ MutexFree(Wrapper(t).mutex)
    /\ IF ~Wrapper(t).isValid
       THEN Return(t, LongRet(-1))
       ELSE \E used \in MemoryUsed : Return(t, LongRet(used))
    /\ UNCHANGED <<g_next_context_id, bridge, haveCurl, issued, destroyedIds>>
    /\ UNCHANGED <<scriptHttpVars, spiderVars>>

\* ------------------------------------------------------- script execution
\* What JS_Eval / JS_Call yields for program p, given the response its
\* httpGet received: an exception or a value, and the text JS_ToCString
\* makes of it (textOk = FALSE: JS_ToCString returns NULL).
JS_Run(p, response) ==
    LET r0 == [isException |-> FALSE, isUndefined |-> FALSE, textOk |-> TRUE,
               text |-> << >>]
    IN CASE p = "value"     -> [r0 EXCEPT !.text = VALUE_TEXT]
         [] p = "errval"    -> [r0 EXCEPT !.text = ERRVAL_TEXT]
         [] p = "http"      -> [r0 EXCEPT !.text = response.data]
         [] p = "throw"     -> [r0 EXCEPT !.isException = TRUE, !.text = EXC_TEXT]
         [] p = "syntax"    -> [r0 EXCEPT !.isException = TRUE, !.text = SYNTAX_TEXT]
         [] p = "throw_raw" -> [r0 EXCEPT !.isException = TRUE, !.textOk = FALSE]
         [] OTHER           -> [r0 EXCEPT !.isUndefined = TRUE, !.text = STR_UNDEFINED]

\* resultStr of nativeEvaluateScript
EvaluateResult(r) ==
    IF r.isException
    THEN IF r.textOk THEN ERR_PREFIX \o r.text ELSE ERR_UNKNOWN_JS
    ELSE IF r.isUndefined THEN << >>
    ELSE IF r.textOk THEN r.text ELSE << >>

\* resultStr of nativeCallFunction
CallFunctionResult(r) ==
    IF r.isException
    THEN IF r.textOk THEN ERR_PREFIX \o r.text ELSE ERR_UNKNOWN_CALL
    ELSE IF r.textOk THEN r.text ELSE << >>

\* the globals of a context after program p ran in it
GlobalsAfter(globals, p) ==
    IF p = "def" THEN [globals EXCEPT ![<<"f">>] = "function"] ELSE globals

\* the running script calls httpGet: the request goes to the transport
ScriptHttpBegin(t) ==
    /\ ~crashed
    /\ pc[t] = "run" /\ op[t].script = "http" /\ ~resp[t].has
    /\ pc' = [pc EXCEPT ![t] = "http"]
    /\ UNCHANGED <<g_contexts, g_contexts_mutex, g_next_context_id, op, ret,
                   resp, bridge, haveCurl, crashed, issued, destroyedIds>>
    /\ UNCHANGED <<scriptHttpVars, spiderVars>>

\* the transport answers and js_http_get returns the response object
ScriptHttpEnd(t, outcomes) ==
    /\ ~crashed
    /\ pc[t] = "http"
    /\ \E o \in outcomes :
         resp' = [resp EXCEPT ![t] = js_http_get(haveCurl, o)]
    /\ pc' = [pc EXCEPT ![t] = "run"]
    /\ UNCHANGED <<g_contexts, g_contexts_mutex, g_next_context_id, op, ret,
                   bridge, haveCurl, crashed, issued, destroyedIds>>
    /\ UNCHANGED <<scriptHttpVars, spiderVars>>

\* JS_Eval / JS_Call returns and the entry point builds its result; the
\* last log line of nativeCallFunction reads funcName after
\* ReleaseStringUTFChars
ScriptReturn(t) ==
    /\ ~crashed
    /\ pc[t] = "run"
    /\ op[t].script # "loop"
    /\ op[t].script = "http" => resp[t].has
    /\ LET r == JS_Run(op[t].script, resp[t])
           id == op[t].context_id
           after == IF id \in DOMAIN g_contexts
                    THEN [g_contexts EXCEPT ![id].globals =
                            GlobalsAfter(g_contexts[id].globals, op[t].script)]
                    ELSE g_contexts
       IN IF op[t].name = "nativeEvaluateScript"
          THEN /\ pc' = [pc EXCEPT ![t] = "done"]
               /\ ret' = [ret EXCEPT ![t] = StringRet(EvaluateResult(r))]
               /\ op' = [op EXCEPT ![t] = Returned(op[t])]
               /\ resp' = [resp EXCEPT ![t] = NoResp]
               /\ g_contexts_mutex' = NoThread
               /\ g_contexts' = UnlockContext(after, id)
               /\ UNCHANGED crashed
          ELSE \/ Return(t, StringRet(CallFunctionResult(r)))
               \/ Fault(t)
    /\ UNCHANGED <<g_next_context_id, bridge, haveCurl, issued, destroyedIds>>
    /\ UNCHANGED <<scriptHttpVars, spiderVars>>

\* ------------------------------------------------------------ http-bridge
\* durations the clock of performHttpRequest may measure, in ms
Durations == {0, 7}

\* nativeRequest of http-bridge.cpp, which takes no lock; its last log line
\* reads methodStr after ReleaseStringUTFChars
nativeRequest(t) ==
    /\ ~crashed
    /\ pc[t] \in {"idle", "done"}
    /\ \E o \in TransportOutcomes, ms \in Durations :
         \/ /\ bridge' = [has |-> TRUE, transport |-> TransportOf(haveCurl, o),
                          response |-> BridgePerformHttpRequest(haveCurl, o, ms)]
            /\ pc' = [pc EXCEPT ![t] = "done"]
            /\ UNCHANGED crashed
         \/ /\ crashed' = TRUE
            /\ pc' = [pc EXCEPT ![t] = "fault"]
            /\ UNCHANGED bridge
    /\ op' = [op EXCEPT ![t] = [NoOp EXCEPT !.name = "nativeRequest"]]
    /\ ret' = [ret EXCEPT ![t] = NoRet]
    /\ UNCHANGED <<g_contexts, g_contexts_mutex, g_next_context_id, resp,
                   haveCurl, issued, destroyedIds>>
    /\ UNCHANGED <<scriptHttpVars, spiderVars>>

\* ------------------------------------------- scripts call the HTTP functions
\* one call of an HTTP function from its entry to its return: the request
\* is built, performHttpRequest runs, the response object is returned
CallHttpFunction(name, argv, built) ==
    /\ jsCall' = [name |-> name, argv |-> argv]
    /\ IF built.sent
       THEN \E o \in CoreOutcomes :
              jsResult' = [thrown |-> "none", sent |-> TRUE,
                           request |-> built.request,
                           value |-> ResponseObject(built.fields,
                                        performHttpRequest(haveCurl, o))]
       ELSE jsResult' = [NoJsResult EXCEPT !.thrown = built.thrown]
    /\ UNCHANGED <<registryVars, haveCurl, spiderVars>>

httpGet ==
    \E argv \in UrlHeadersArgv :
        CallHttpFunction("httpGet", argv, js_http_get_build(argv))
httpPost ==
    \E argv \in UrlBodyHeadersArgv :
        CallHttpFunction("httpPost", argv, js_http_post_build(argv))
httpPut ==
    \E argv \in UrlBodyHeadersArgv :
        CallHttpFunction("httpPut", argv, js_http_put_build(argv))
httpDelete ==
    \E argv \in UrlHeadersArgv :
        CallHttpFunction("httpDelete", argv, js_http_delete_build(argv))
httpHead ==
    \E argv \in UrlHeadersArgv :
        CallHttpFunction("httpHead", argv, js_http_head_build(argv))
httpRequest ==
    \E argv \in OptionsArgv :
        CallHttpFunction("httpRequest", argv, js_http_request_build(argv))
\* js_http_get_async / js_http_post_async call the synchronous functions
httpGetAsync ==
    \E argv \in UrlHeadersArgv :
        CallHttpFunction("httpGetAsync", argv, js_http_get_build(argv))
httpPostAsync ==
    \E argv \in UrlBodyHeadersArgv :
        CallHttpFunction("httpPostAsync", argv, js_http_post_build(argv))

\* ------------------------------------------------ the host calls spider-bridge
\* nativeParse from entry to return. When an extraction step throws, the
\* catch block builds the result from urlStr after ReleaseStringUTFChars:
\* the read yields the url, another text, or faults.
nativeParse ==
    /\ ~crashed
    /\ \E url \in PageUrls, html \in Pages, ms \in Durations :
         LET title == extractTitle(html)
             thumbnail == extractThumbnail(html, url)
             playUrls == extractPlayUrls(html)
             downloadUrls == extractDownloadUrls(html, url)
             metadata == extractMetadata(html)
             threw == \/ title.threw \/ thumbnail.threw \/ playUrls.threw
                      \/ downloadUrls.threw \/ metadata.threw
             result == [url |-> url, title |-> title.str, content |-> html,
                        thumbnail |-> thumbnail.str, metadata |-> metadata.map,
                        playUrls |-> playUrls.urls,
                        downloadUrls |-> downloadUrls.urls,
                        parseTime |-> ms, error |-> << >>]
             errorResult(read) == [NewSpiderResult EXCEPT !.url = read,
                                                          !.error = REGEX_WHAT,
                                                          !.parseTime = ms]
         IN /\ spiderCall' = [NoSpiderCall EXCEPT !.name = "nativeParse",
                                                  !.url = url, !.html = html]
            /\ IF ~threw
               THEN /\ spiderResult' = [NoSpiderResult EXCEPT !.kind = "result",
                                                              !.result = result]
                    /\ UNCHANGED crashed
               ELSE \/ /\ \E read \in {url} \cup GarbageUrls :
                            spiderResult' =
                                [NoSpiderResult EXCEPT !.kind = "result",
                                                       !.result = errorResult(read)]
                       /\ UNCHANGED crashed
                    \/ /\ spiderResult' = [NoSpiderResult EXCEPT !.kind = "fault"]
                       /\ crashed' = TRUE
    /\ UNCHANGED <<g_contexts, g_contexts_mutex, g_next_context_id, pc, op, ret,
                   resp, bridge, haveCurl, issued, destroyedIds, scriptHttpVars>>

\* nativeExtractPlayUrls from entry to return
nativeExtractPlayUrls ==
    /\ ~crashed
    /\ \E url \in PageUrls, html \in Pages :
         LET playUrls == extractPlayUrls(html)
         IN /\ spiderCall' = [NoSpiderCall EXCEPT
                                !.name = "nativeExtractPlayUrls",
                                !.url = url, !.html = html]
            /\ spiderResult' =
                 [NoSpiderResult EXCEPT
                    !.kind = "playUrls",
                    !.result = [NewSpiderResult EXCEPT
                                  !.playUrls = playUrls.urls]]
    /\ UNCHANGED <<registryVars, haveCurl, scriptHttpVars>>

\* makeAbsoluteUrl applied to a candidate and the url of a page
ResolveUrl ==
    /\ ~crashed
    /\ \E candidate \in Candidates, baseUrl \in BaseUrls :
         /\ spiderCall' = [NoSpiderCall EXCEPT !.name = "makeAbsoluteUrl",
                                               !.url = baseUrl,
                                               !.candidate = candidate]
         /\ spiderResult' = [NoSpiderResult EXCEPT
                               !.kind = "text",
                               !.text = makeAbsoluteUrl(candidate, baseUrl)]
    /\ UNCHANGED <<registryVars, haveCurl, scriptHttpVars>>

\* extractTitle applied to a page
ExtractTitle ==
    /\ ~crashed
    /\ \E html \in TitlePages :
         /\ spiderCall' = [NoSpiderCall EXCEPT !.name = "extractTitle",
                                               !.html = html]
         /\ spiderResult' = [NoSpiderResult EXCEPT
                               !.kind = "title",
                               !.text = extractTitle(html).str]
    /\ UNCHANGED <<registryVars, haveCurl, scriptHttpVars>>


\* ------------------------------------------------------------------- Next
\* NumThreads callers of the registry
Next ==
    \E t \in Threads :
        \/ Call(t)
        \/ createJSContext(t)
        \/ destroyJSContext(t)
        \/ Lookup(t, CoreScripts, CoreArgsJson)
        \/ nativeEvaluateScript(t)
        \/ nativeCallFunction(t)
        \/ nativeHasFunction(t)
        \/ nativeGetMemoryUsage(t)
        \/ ScriptHttpBegin(t)
        \/ ScriptHttpEnd(t, CoreOutcomes)
        \/ ScriptReturn(t)

Spec == Init /\ [][Next]_vars

\* one caller, with every script, argument and transport outcome, and the
\* native requests of the host
NextOneCaller ==
    \/ Call(1)
    \/ createJSContext(1)
    \/ destroyJSContext(1)
    \/ Lookup(1, Scripts, ArgsJson)
    \/ nativeEvaluateScript(1)
    \/ nativeCallFunction(1)
    \/ nativeHasFunction(1)
    \/ nativeGetMemoryUsage(1)
    \/ ScriptHttpBegin(1)
    \/ ScriptHttpEnd(1, TransportOutcomes)
    \/ ScriptReturn(1)
    \/ nativeRequest(1)

SpecOneCaller == InitOneCaller /\ [][NextOneCaller]_vars

\* the scripts of one sandbox call the HTTP functions
NextScriptHttp ==
    \/ httpGet
    \/ httpPost
    \/ httpPut
    \/ httpDelete
    \/ httpHead
    \/ httpRequest
    \/ httpGetAsync
    \/ httpPostAsync

SpecScriptHttp == Init /\ [][NextScriptHttp]_vars

\* the host calls the spider
NextSpider ==
    \/ nativeParse
    \/ nativeExtractPlayUrls
    \/ ResolveUrl

SpecSpider == Init /\ [][NextSpider]_vars

\* titles are extracted from pages
NextTitle == ExtractTitle

SpecTitle == Init /\ [][NextTitle]_vars

\* callers whose scripts all terminate
TerminatingScripts == {"value", "throw", "syntax", "http", "def"}
TerminatingArgsJson == {"value", "throw", "http", "invalid"}

\* the steps of a call of thread t once the thread has entered it
Progress(t) ==
    \/ createJSContext(t)
    \/ destroyJSContext(t)
    \/ Lookup(t, TerminatingScripts, TerminatingArgsJson)
    \/ nativeEvaluateScript(t)
    \/ nativeCallFunction(t)
    \/ nativeHasFunction(t)
    \/ nativeGetMemoryUsage(t)
    \/ ScriptHttpBegin(t)
    \/ ScriptHttpEnd(t, CoreOutcomes)
    \/ ScriptReturn(t)

NextTerminating == \E t \in Threads : Call(t) \/ Progress(t)

\* a thread inside a call keeps running, the transport answers, and a thread
\* that waits for a lock which is free again and again gets it
SpecTerminating ==
    Init /\ [][NextTerminating]_vars /\ \A t \in Threads : SF_vars(Progress(t))

\* ------------------------------------------------- the result encoders
\* operator<< of a long on an ostream: decimal digits, '-' before a
\* negative number
DECIMAL_DIGITS == <<"0","1","2","3","4","5","6","7","8","9">>

RECURSIVE ToDecimal(_)
ToDecimal(n) ==
    IF n < 0 THEN <<"-">> \o ToDecimal(0 - n)
    ELSE IF n < 10 THEN <<DECIMAL_DIGITS[n + 1]>>
    ELSE ToDecimal(n \div 10) \o <<DECIMAL_DIGITS[(n % 10) + 1]>>

\* the loop over a vector of texts: a comma before every element but the
\* first, each element between double quotes
RECURSIVE ArrayLoop(_, _, _)
ArrayLoop(json, urls, i) ==
    IF i > Len(urls) THEN json
    ELSE ArrayLoop(json \o (IF i > 1 THEN <<",">> ELSE << >>)
                        \o <<"\"">> \o urls[i] \o <<"\"">>,
                   urls, i + 1)

\* the loop over a std::map of texts, in key order: a comma before every
\* entry but the first, key and value each between double quotes
RECURSIVE MapLoop(_, _, _)
MapLoop(json, map, i) ==
    IF i > Len(map) THEN json
    ELSE MapLoop(json \o (IF i > 1 THEN <<",">> ELSE << >>)
                      \o <<"\"">> \o map[i][1] \o <<"\"",":","\"">>
                      \o map[i][2] \o <<"\"">>,
                 map, i + 1)

\* spiderResultToJson of spider-bridge.cpp
spiderResultToJson(result) ==
    LET head == <<"{">>
            \o <<"\"","u","r","l","\"",":","\"">> \o result.url \o <<"\"",",">>
            \o <<"\"","t","i","t","l","e","\"",":","\"">> \o result.title
            \o <<"\"",",">>
            \o <<"\"","c","o","n","t","e","n","t","\"",":","\"">>
            \o result.content \o <<"\"",",">>
            \o <<"\"","t","h","u","m","b","n","a","i","l","\"",":","\"">>
            \o result.thumbnail \o <<"\"",",">>
            \o <<"\"","p","a","r","s","e","T","i","m","e","\"",":">>
            \o ToDecimal(result.parseTime) \o <<",">>
            \o <<"\"","e","r","r","o","r","\"",":","\"">> \o result.error
            \o <<"\"",",">>
        play == ArrayLoop(head \o <<"\"","p","l","a","y","U","r","l","s","\"",
                                    ":","[">>,
                          result.playUrls, 1) \o <<"]",",">>
        down == ArrayLoop(play \o <<"\"","d","o","w","n","l","o","a","d","U",
                                    "r","l","s","\"",":","[">>,
                          result.downloadUrls, 1) \o <<"]",",">>
        meta == MapLoop(down \o <<"\"","m","e","t","a","d","a","t","a","\"",
                                  ":","{">>,
                        result.metadata, 1) \o <<"}">>
    IN meta \o <<"}">>

\* httpResponseToJson of http-bridge.cpp
httpResponseToJson(response) ==
    LET head == <<"{">>
            \o <<"\"","s","t","a","t","u","s","C","o","d","e","\"",":">>
            \o ToDecimal(response.statusCode) \o <<",">>
            \o <<"\"","b","o","d","y","\"",":","\"">> \o response.body
            \o <<"\"",",">>
            \o <<"\"","r","e","s","p","o","n","s","e","T","i","m","e","\"",":">>
            \o ToDecimal(response.responseTime) \o <<",">>
            \o <<"\"","e","r","r","o","r","\"",":","\"">> \o response.error
            \o <<"\"",",">>
            \o <<"\"","h","e","a","d","e","r","s","\"",":","{">>
    IN MapLoop(head, response.headers, 1) \o <<"}","}">>

\* parseResultToJson of jsoup-bridge.cpp; the children are not written
parseResultToJson(result) ==
    LET head == <<"{">>
            \o <<"\"","t","e","x","t","\"",":","\"">> \o result.text
            \o <<"\"",",">>
            \o <<"\"","h","t","m","l","\"",":","\"">> \o result.html
            \o <<"\"",",">>
            \o <<"\"","a","t","t","r","i","b","u","t","e","s","\"",":","{">>
    IN MapLoop(head, result.attributes, 1) \o <<"}","}">>

\* parseResultsToJson of jsoup-bridge.cpp
RECURSIVE ResultsLoop(_, _, _)
ResultsLoop(json, results, i) ==
    IF i > Len(results) THEN json
    ELSE ResultsLoop(json \o (IF i > 1 THEN <<",">> ELSE << >>)
                          \o parseResultToJson(results[i]),
                     results, i + 1)

parseResultsToJson(results) == ResultsLoop(<<"[">>, results, 1) \o <<"]">>

\* ---- what the encoders are handed
\* field contents: empty, plain, with a double quote, ending in a backslash,
\* with a line break, and a backslash before a letter
FieldTexts ==
    {<< >>,
     <<"a","b">>,
     <<"a","\"","b">>,
     <<"a","\\">>,
     <<"a","\n","b">>,
     <<"\\","n">>}

ContentTexts ==
    {<< >>,
     <<"<","p",">","h","i","<","/","p",">">>,
     <<"<","a"," ","i","d","=","\"","x","\"",">">>}

UrlLists ==
    {<< >>,
     << <<"h","t","t","p",":","/","/","h","/","a",".","m","p","4">> >>,
     << <<"h","t","t","p",":","/","/","h","/","a",".","m","p","4">>,
        <<"h","t","t","p",":","/","/","h","/","b","\"","c">> >>}

TextMaps ==
    {<< >>,
     << <<<<"f","p","s">>, <<"2","5">>>> >>,
     << <<<<"f","p","s">>, <<"2","5">>>>, <<<<"s","i","z","e">>, <<"1","\\">>>> >>}

\* a body as received, or the body of the build without libcurl
BodyTexts == FieldTexts \cup {BRIDGE_NO_CURL_BODY}

ErrorTexts == {<< >>, REGEX_WHAT, BRIDGE_NO_CURL_ERR}

StatusCodes == {0, 200}

SpiderResults ==
    [url : {<<"h","t","t","p",":","/","/","h","/","p">>},
     title : FieldTexts, content : ContentTexts, thumbnail : {<< >>},
     metadata : TextMaps, playUrls : UrlLists, downloadUrls : {<< >>},
     parseTime : Durations, error : ErrorTexts]

HttpResponses ==
    [statusCode : StatusCodes, body : BodyTexts,
     headers : TextMaps, error : ErrorTexts, responseTime : Durations]

ParseResults ==
    [text : FieldTexts, html : ContentTexts, attributes : TextMaps]

ParseResultLists ==
    {<< >>}
    \cup {<<r>> : r \in ParseResults}
    \cup {<<r, [text |-> <<"a","b">>, html |-> << >>, attributes |-> << >>]>> :
            r \in ParseResults}

\* nativeParse hands its result to spiderResultToJson
EncodeSpiderResult ==
    /\ ~crashed
    /\ \E r \in SpiderResults :
         /\ spiderCall' = [NoSpiderCall EXCEPT !.name = "spiderResultToJson"]
         /\ spiderResult' = [kind |-> "spiderJson", result |-> r,
                             text |-> spiderResultToJson(r)]
    /\ UNCHANGED <<registryVars, haveCurl, scriptHttpVars>>

\* nativeGet, nativePost and nativeRequest hand theirs to httpResponseToJson
EncodeHttpResponse ==
    /\ ~crashed
    /\ \E r \in HttpResponses :
         /\ spiderCall' = [NoSpiderCall EXCEPT !.name = "httpResponseToJson"]
         /\ spiderResult' = [kind |-> "httpJson", result |-> r,
                             text |-> httpResponseToJson(r)]
    /\ UNCHANGED <<registryVars, haveCurl, scriptHttpVars>>

\* the jsoup-bridge entry points hand one element to parseResultToJson or
\* a list of them to parseResultsToJson
EncodeParseResult ==
    /\ ~crashed
    /\ \E r \in ParseResults :
         /\ spiderCall' = [NoSpiderCall EXCEPT !.name = "parseResultToJson"]
         /\ spiderResult' = [kind |-> "parseJson", result |-> r,
                             text |-> parseResultToJson(r)]
    /\ UNCHANGED <<registryVars, haveCurl, scriptHttpVars>>

EncodeParseResults ==
    /\ ~crashed
    /\ \E rs \in ParseResultLists :
         /\ spiderCall' = [NoSpiderCall EXCEPT !.name = "parseResultsToJson"]
         /\ spiderResult' = [kind |-> "parseListJson", result |-> rs,
                             text |-> parseResultsToJson(rs)]
    /\ UNCHANGED <<registryVars, haveCurl, scriptHttpVars>>

NextEncoding ==
    \/ EncodeSpiderResult
    \/ EncodeHttpResponse
    \/ EncodeParseResult
    \/ EncodeParseResults

SpecEncoding == Init /\ [][NextEncoding]_vars

\* ================================================================ claims
\* thread t is inside JS_Eval / JS_Call, a nested HTTP request included
Executing(t) == pc[t] \in {"run", "http"} /\ op[t].name \in ScriptOps

\* thread t waits for the registry lock at the start of one of the calls
Waiting(t, names) == pc[t] = "wait" /\ op[t].name \in names

\* C1: at most one evaluate/callFunction execution is in progress against
\* any single context id, nested script HTTP requests included.
C1_OneExecutionPerContext ==
    \A id \in ContextIds :
        Cardinality({t \in Threads : Executing(t) /\ op[t].context_id = id}) <= 1

\* C1 witness: a call is inside a nested HTTP request while a second caller
\* targets the same context and has not started.
C1_Witness ==
    \E t, u \in Threads :
        /\ t # u
        /\ pc[t] = "http"
        /\ Waiting(u, ScriptOps)
        /\ op[u].context_id = op[t].context_id

\* C2: an execution on context A never makes an execution on a distinct
\* registered context B wait: the caller for B can take its locks.
C2_ExecutionOnOtherContextNeverWaits ==
    \A t, u \in Threads :
        ( /\ t # u
          /\ Executing(u)
          /\ Waiting(t, ScriptOps)
          /\ Registered(op[t].context_id)
          /\ op[t].context_id # op[u].context_id )
        => ENABLED Lookup(t, CoreScripts, CoreArgsJson)

\* C3: an execution in progress against context A does not block
\* createContext or destroyContext(B) for B different from A.
C3_CreateDestroyNotBlockedByExecution ==
    \A t, u \in Threads :
        ( /\ t # u
          /\ Executing(u)
          /\ Waiting(t, {"createJSContext", "destroyJSContext"})
          /\ op[t].context_id # op[u].context_id )
        => MutexFree(g_contexts_mutex)

\* C4: when a call on context A never returns, destroyContext(A) issued by
\* another thread is still able to proceed.
C4_DestroyOfStuckContextProceeds ==
    \A t, u \in Threads :
        ( /\ t # u
          /\ pc[u] = "run" /\ op[u].script = "loop"
          /\ Waiting(t, {"destroyJSContext"})
          /\ op[t].context_id = op[u].context_id )
        => ENABLED destroyJSContext(t)

\* C5: every successful createContext returns an id strictly greater than
\* every id returned earlier, so no id is handed out twice, destroyed or not.
C5_IdsStrictlyIncreasing ==
    \A i, j \in 1..Len(issued) : i < j => issued[i] < issued[j]

\* C5 witness: two contexts were created and the first one was destroyed.
C5_Witness ==
    /\ Len(issued) >= 2
    /\ issued[1] \in destroyedIds
    /\ \E t \in Threads : /\ pc[t] = "done"
                          /\ op[t].name = "createJSContext"
                          /\ ret[t].num = issued[Len(issued)]

\* a step in which destroyJSContext of thread t runs
DestroyStep(t) ==
    op[t].name = "destroyJSContext" /\ pc[t] = "wait" /\ pc'[t] = "done"

\* a step in which evaluate/callFunction of thread t returns an ERROR: text
ErrorReturnStep(t) ==
    /\ op[t].name \in ScriptOps
    /\ pc[t] # "done" /\ pc'[t] = "done"
    /\ BeginsWith(ret'[t].str, ERROR_MARK)

\* C6: destroyContext(x), and an evaluate/callFunction on x that ends in
\* an ERROR: result, leave every other context as it was; destroying an
\* unregistered id changes nothing and returns normally.
C6_OtherContextsUnchanged ==
    [][\A t \in Threads :
          (DestroyStep(t) \/ ErrorReturnStep(t)) =>
             /\ \A B \in ContextIds \ {op[t].context_id} :
                   /\ B \in DOMAIN g_contexts' <=> B \in DOMAIN g_contexts
                   /\ B \in DOMAIN g_contexts => g_contexts'[B] = g_contexts[B]
             /\ (DestroyStep(t) /\ ~Registered(op[t].context_id)) =>
                   /\ g_contexts' = g_contexts
                   /\ ret'[t] = VoidRet
                   /\ ~crashed']_vars

\* C6 witness: a destroyContext has erased a context and returned while
\* another context is registered.
C6_Witness ==
    \E t \in Threads :
        /\ pc[t] = "done" /\ op[t].name = "destroyJSContext"
        /\ destroyedIds # {}
        /\ DOMAIN g_contexts # {}

\* the sandbox of w is fully initialised
FullyInitialised(w) ==
    w.isValid /\ w.runtime /\ w.context /\ w.console /\ w.http

\* a step in which createJSContext of thread t runs
CreateStep(t) ==
    op[t].name = "createJSContext" /\ pc[t] = "wait" /\ pc'[t] = "done"

C8_DestroyedIsTerminal ==
    \A t \in Threads :
        (pc[t] = "done" /\ op[t].name \in ContextOps /\ op[t].afterDestroy)
        => ret[t] = NotFoundRet(op[t].name)

\* C8 witness: an evaluate on a destroyed id has returned after a further
\* context was created.
C8_Witness ==
    \E t \in Threads :
        /\ pc[t] = "done" /\ op[t].name = "nativeEvaluateScript"
        /\ op[t].afterDestroy
        /\ ret[t] = StringRet(ERR_NOT_FOUND)
        /\ Len(issued) >= 2

\* the call of thread t is in one of the failure cases: unknown context
\* id, invalid context, undefined function name, args_json that is not
\* JSON, or a script that throws or does not parse
FailureCase(t) ==
    \/ pc[t] = "wait" /\ ~Registered(op[t].context_id)
    \/ /\ pc[t] = "found"
       /\ \/ ~Wrapper(t).isValid
          \/ /\ op[t].name = "nativeCallFunction"
             /\ \/ Wrapper(t).globals[op[t].funcName] = "undefined"
                \/ op[t].args = "invalid"
    \/ pc[t] = "run" /\ JS_Run(op[t].script, resp[t]).isException

\* C9: evaluate and callFunction end every failure case by returning a
\* string that begins with "ERROR:".
C9_FailuresReturnErrorString ==
    [][\A t \in Threads :
          ( /\ op[t].name \in ScriptOps
            /\ FailureCase(t)
            /\ pc'[t] \notin {pc[t], "found", "run", "http"} )
          => /\ pc'[t] = "done"
             /\ ret'[t].kind = "string"
             /\ BeginsWith(ret'[t].str, ERROR_MARK)]_vars

\* C10: a transport failure of an HTTP call (no libcurl in the build
\* included) gives status <= 0 with a descriptive text, and a status > 0
\* is given only when the transport completed the exchange.
C10_TransportFailureHasNonPositiveStatus ==
    /\ \A t \in Threads :
          resp[t].has =>
             /\ resp[t].transport # "ok" =>
                   resp[t].status <= 0 /\ resp[t].data # << >>
             /\ resp[t].status > 0 => resp[t].transport = "ok"
    /\ bridge.has =>
          /\ bridge.transport # "ok" =>
                /\ bridge.response.statusCode <= 0
                /\ bridge.response.body # << >> \/ bridge.response.error # << >>
          /\ bridge.response.statusCode > 0 => bridge.transport = "ok"

\* ---------------------------------------- claims on the script HTTP functions
\* the functions with the signature (url, headers?) and (url, body, headers?)
UrlHeadersFunctions == {"httpGet", "httpDelete", "httpHead", "httpGetAsync"}
UrlBodyHeadersFunctions == {"httpPost", "httpPut", "httpPostAsync"}
\* the methods of the data model
FiveMethods == {"GET", "POST", "PUT", "DELETE", "HEAD"}

\* the last call was httpRequest with an options object
CalledWithOptions ==
    /\ jsCall.name = "httpRequest"
    /\ Len(jsCall.argv) >= 1
    /\ JS_IsObject(jsCall.argv[1])

HasProperty(obj, name) == \E i \in 1..Len(obj.props) : obj.props[i][1] = name

\* C11: httpRequest with options that have no url, or whose method is not
\* a string, raises a type error without invoking the transport; the
\* transport is invoked only when url is present and method is a string.
C11_MalformedOptionsRejected ==
    CalledWithOptions =>
        LET options == jsCall.argv[1]
            urlMissing == ~HasProperty(options, "url")
            methodNotString ==
                /\ HasProperty(options, "method")
                /\ JS_GetPropertyStr(options, "method").tag # "string"
        IN /\ (urlMissing \/ methodNotString) =>
                 jsResult.thrown = "TypeError" /\ ~jsResult.sent
           /\ jsResult.sent => ~urlMissing /\ ~methodNotString

\* C12: the method of every request handed to the transport is one of GET,
\* POST, PUT, DELETE, HEAD, and it is GET when the options of httpRequest
\* have no method property.
C12_MethodIsOneOfFive ==
    jsResult.sent =>
        /\ jsResult.request.method \in FiveMethods
        /\ (CalledWithOptions /\ ~HasProperty(jsCall.argv[1], "method")) =>
              jsResult.request.method = "GET"

\* the timeout option of the last call is an integer in the 32-bit range
\* that satisfies test
TimeoutOption(test(_)) ==
    /\ CalledWithOptions
    /\ HasProperty(jsCall.argv[1], "timeout")
    /\ LET t == JS_GetPropertyStr(jsCall.argv[1], "timeout")
       IN t.tag = "number" /\ t.wraps = 0 /\ test(t.int32)

\* the timeout option of the last call is a positive integer
PositiveTimeoutOption ==
    /\ CalledWithOptions
    /\ HasProperty(jsCall.argv[1], "timeout")
    /\ LET t == JS_GetPropertyStr(jsCall.argv[1], "timeout")
       IN t.tag = "number" /\ (t.wraps > 0 \/ (t.wraps = 0 /\ t.int32 > 0))

\* the timeout option of the last call is an integer below 1
TimeoutOptionBelowOne ==
    /\ CalledWithOptions
    /\ HasProperty(jsCall.argv[1], "timeout")
    /\ LET t == JS_GetPropertyStr(jsCall.argv[1], "timeout")
       IN t.tag = "number" /\ (t.wraps < 0 \/ (t.wraps = 0 /\ t.int32 < 1))

\* the timeout of the request is the number given as the timeout option
TimeoutIsTheOption ==
    LET t == JS_GetPropertyStr(jsCall.argv[1], "timeout")
    IN t.wraps = 0 /\ jsResult.request.timeout = t.int32

\* the request of the last call has the default timeout by the claim: the
\* call is not httpRequest, or its options have no timeout
DefaultTimeoutCase ==
    \/ jsCall.name # "httpRequest"
    \/ CalledWithOptions /\ ~HasProperty(jsCall.argv[1], "timeout")

\* C13 as stated: the timeout of every request is positive; it is 15000
\* for the five verbs and without a timeout option, options.timeout when
\* that is a positive integer, and 1 when options.timeout is below 1.
C13_TimeoutClampedToOne ==
    jsResult.sent =>
        /\ jsResult.request.timeout > 0
        /\ DefaultTimeoutCase => jsResult.request.timeout = 15000
        /\ PositiveTimeoutOption => TimeoutIsTheOption
        /\ TimeoutOptionBelowOne => jsResult.request.timeout = 1

\* C13 amended: the timeout of every request is positive; it is 15000 for
\* the five verbs and without a timeout option, options.timeout when that
\* is an integer from 1 to 2^31 - 1, and the default 15000 when
\* options.timeout is an integer from -2^31 to 0.
C13_TimeoutPositiveDefaultBelowOne ==
    jsResult.sent =>
        /\ jsResult.request.timeout > 0
        /\ DefaultTimeoutCase => jsResult.request.timeout = 15000
        /\ TimeoutOption(LAMBDA n : n > 0) => TimeoutIsTheOption
        /\ TimeoutOption(LAMBDA n : n < 1) => jsResult.request.timeout = 15000

\* C13 witness: httpRequest was given the timeout 0 and its request went
\* to the transport.
C13_Witness ==
    /\ jsResult.sent
    /\ TimeoutOption(LAMBDA n : n = 0)

\* the script supplied a body with the last call
BodySupplied ==
    \/ jsCall.name \in UrlBodyHeadersFunctions
    \/ CalledWithOptions /\ HasProperty(jsCall.argv[1], "data")

\* C14: every request built by a script HTTP function carries the default
\* Accept and Accept-Language headers, and a Content-Type when a body is
\* supplied.
C14_DefaultHeadersOnEveryRequest ==
    jsResult.sent =>
        /\ MapHas(jsResult.request.headers, "Accept")
        /\ MapHas(jsResult.request.headers, "Accept-Language")
        /\ BodySupplied => MapHas(jsResult.request.headers, "Content-Type")

\* the headers object the script supplied with the last call, or an
\* object without properties when it supplied none
SuppliedHeaders ==
    LET at(n) == IF Len(jsCall.argv) >= n /\ JS_IsObject(jsCall.argv[n])
                 THEN jsCall.argv[n] ELSE JS_NewObject(<< >>)
    IN CASE jsCall.name \in UrlHeadersFunctions -> at(2)
         [] jsCall.name \in UrlBodyHeadersFunctions -> at(3)
         [] CalledWithOptions /\
            JS_IsObject(JS_GetPropertyStr(jsCall.argv[1], "headers")) ->
              JS_GetPropertyStr(jsCall.argv[1], "headers")
         [] OTHER -> JS_NewObject(<< >>)

\* C15: each key/value of the headers object supplied by the script is in
\* the request handed to the transport, in place of a default header of
\* the same name.
C15_SuppliedHeadersReachTransport ==
    jsResult.sent =>
        \A i \in 1..Len(SuppliedHeaders.props) :
            LET key == SuppliedHeaders.props[i][1]
                value == SuppliedHeaders.props[i][2].str
            IN /\ MapHas(jsResult.request.headers, key)
               /\ MapGet(jsResult.request.headers, key) = value

\* C16: every script HTTP function that returns normally returns a value
\* with the four fields status, data, contentType and headers.
C16_ResponseHasFourFields ==
    (jsCall.name # "none" /\ jsResult.thrown = "none") =>
        jsResult.value.fields = FOUR_FIELDS

\* spellings of the Content-Type header name that servers send here
ContentTypeSpellings == {"Content-Type", "CONTENT-TYPE", "content-type"}

\* ASCII lower case of the header names servers send in this model
LowerCaseName(name) ==
    CASE name \in ContentTypeSpellings -> "content-type"
      [] name = "Server" -> "server"
      [] OTHER -> name

\* C17: contentType is the value of the Content-Type header of the
\* response whenever one was received, whatever the capitalisation of its
\* name, and is empty only when none was received.
C17_ContentTypeMatchedCaseInsensitively ==
    \A t \in Threads :
        (resp[t].has /\ resp[t].transport = "ok") =>
            LET h == resp[t].headers
                isContentType(i) == LowerCaseName(h[i][1]) = "content-type"
            IN /\ \A i \in 1..Len(h) :
                     isContentType(i) => resp[t].contentType = h[i][2]
               /\ resp[t].contentType = "" =>
                     ~\E i \in 1..Len(h) : isContentType(i)


\* ---------------------------------------------------------------- the spider
\* the calls that hand url lists back to the host
ListKinds == {"result", "playUrls"}
ListsReturned == spiderResult.kind \in ListKinds

NoDuplicates(urls) == \A i, j \in 1..Len(urls) : urls[i] = urls[j] => i = j

Occurrences(html, item) == Cardinality({i \in 1..Len(html) : html[i] = item})

ABSOLUTE_SRC == [key |-> "src", value |-> <<"h","t","t","p","s",":","/","/","c",".","t","/","v",".","m","3","u","8">>]

IsAbsolute(url) == BeginsWith(url, HTTP_SCHEME) \/ BeginsWith(url, HTTPS_SCHEME)

HostRun(b, from, j) ==
    /\ from <= j
    /\ \A k \in from..j : b[k] # "/"
    /\ j = Len(b) \/ b[j + 1] = "/"
TokenAt(b, i, j) ==
    \/ i + 7 <= j /\ SubSeq(b, i, i + 6) = HTTP_SCHEME /\ HostRun(b, i + 7, j)
    \/ i + 8 <= j /\ SubSeq(b, i, i + 7) = HTTPS_SCHEME /\ HostRun(b, i + 8, j)
TokenStarts(b) == {i \in 1..Len(b) : \E j \in i..Len(b) : TokenAt(b, i, j)}
HasToken(b) == TokenStarts(b) # {}
FirstToken(b) ==
    LET i == CHOOSE m \in TokenStarts(b) : \A n \in TokenStarts(b) : m <= n
        j == CHOOSE n \in i..Len(b) : TokenAt(b, i, n)
    IN SubSeq(b, i, j)

HasSlash(b) == \E k \in 1..Len(b) : b[k] = "/"
CutAfterLastSlash(b) ==
    SubSeq(b, 1, CHOOSE k \in 1..Len(b) :
                    b[k] = "/" /\ \A j \in (k + 1)..Len(b) : b[j] # "/")

EXAMPLE_ROOT == <<"/","a","/","b",".","m","p","4">>
EXAMPLE_ROOT_BASE == <<"h","t","t","p","s",":","/","/","x",".","c","o","m","/","c","/","d">>
EXAMPLE_ROOT_RESOLVED == <<"h","t","t","p","s",":","/","/","x",".","c","o","m","/","a","/","b",".","m","p","4">>
EXAMPLE_PATH == <<"e",".","m","p","4">>
EXAMPLE_PATH_BASE == <<"h","t","t","p","s",":","/","/","x",".","c","o","m","/","c","/","d","/">>
EXAMPLE_PATH_RESOLVED == <<"h","t","t","p","s",":","/","/","x",".","c","o","m","/","c","/","d","/","e",".","m","p","4">>
EXAMPLE_PROTOCOL == <<"/","/","c","d","n",".","c","o","m","/","f",".","m","p","4">>
EXAMPLE_PROTOCOL_RESOLVED == <<"h","t","t","p","s",":","/","/","c","d","n",".","c","o","m","/","f",".","m","p","4">>
EXAMPLE_ABSOLUTE == <<"h","t","t","p","s",":","/","/","y",".","c","o","m","/","g",".","m","p","4">>

AfterScheme(b) ==
    IF BeginsWith(b, HTTPS_SCHEME) THEN 9
    ELSE IF BeginsWith(b, HTTP_SCHEME) THEN 8
    ELSE 1
NoSlashAfterScheme(b) == \A k \in AfterScheme(b)..Len(b) : b[k] # "/"

IsPathRelative(c) == ~BeginsWith(c, HTTP) /\ ~BeginsWith(c, <<"/">>)

\* C21: when baseUrl holds no "/" behind its scheme, resolve returns a
\* path-relative candidate unchanged; and whatever the candidate, a result
\* that is not the candidate itself still begins with the scheme://host of a
\* baseUrl that begins with one: the host is never replaced by the candidate.
C21_NoSlashBaseLeavesCandidate ==
    spiderResult.kind = "text" =>
        LET c == spiderCall.candidate
            b == spiderCall.url
            r == spiderResult.text
        IN /\ IsPathRelative(c) /\ NoSlashAfterScheme(b) => r = c
           /\ /\ ~BeginsWith(c, HTTP)
              /\ ~BeginsWith(c, <<"/","/">>)
              /\ AfterScheme(b) > 1
              /\ AfterScheme(b) <= Len(b)
              /\ b[AfterScheme(b)] # "/"
              => r = c \/ BeginsWith(r, FirstToken(b))

\* ------------------------------------------------------------------ titles
\* what the spec makes of each element and token: whether it is a candidate
\* of its rule (an element is one when its text holds no markup), and its
\* text without markup and surrounding white space
TitleCandidates ==
    <<[item |-> [key |-> "<title>", value |-> <<" ","D","e","m","o"," ">>],
       candidate |-> TRUE, clean |-> <<"D","e","m","o">>],
      [item |-> [key |-> "<title>", value |-> <<"a","b">>],
       candidate |-> TRUE, clean |-> <<"a","b">>],
      [item |-> [key |-> "<h1>", value |-> <<"H","e","a","d">>],
       candidate |-> TRUE, clean |-> <<"H","e","a","d">>],
      [item |-> [key |-> "<h1>", value |-> <<"<","b",">","B","i","g","<","/","b",">">>],
       candidate |-> FALSE, clean |-> <<>>],
      [item |-> [key |-> "<h2>", value |-> <<" ","x"," ">>],
       candidate |-> TRUE, clean |-> <<"x">>],
      [item |-> [key |-> "<h2>", value |-> <<"S","u","b","2">>],
       candidate |-> TRUE, clean |-> <<"S","u","b","2">>],
      [item |-> [key |-> "title", value |-> <<"<","i",">","K","e","y","<","/","i",">","\n">>],
       candidate |-> TRUE, clean |-> <<"K","e","y">>],
      [item |-> [key |-> "title", value |-> <<" "," ">>],
       candidate |-> TRUE, clean |-> <<>>],
      [item |-> [key |-> "name", value |-> <<"v","i","e","w","p","o","r","t">>],
       candidate |-> TRUE, clean |-> <<"v","i","e","w","p","o","r","t">>],
      [item |-> [key |-> "name", value |-> <<"a","<","b",">">>],
       candidate |-> TRUE, clean |-> <<"a">>] >>

\* the rules in their order
TitleRules == <<"<title>", "<h1>", "<h2>", "title", "name">>

CandidateRow(item) ==
    TitleCandidates[CHOOSE n \in 1..Len(TitleCandidates) : TitleCandidates[n].item = item]

\* the places of html where rule k finds a candidate; the rule takes the first
CandidatePlaces(html, k) ==
    {i \in 1..Len(html) : /\ html[i].key = TitleRules[k]
                          /\ CandidateRow(html[i]).candidate}
RuleText(html, k) ==
    LET places == CandidatePlaces(html, k)
    IN CandidateRow(html[CHOOSE i \in places : \A j \in places : i <= j]).clean

QualifyingRules(html) ==
    {k \in 1..Len(TitleRules) : /\ CandidatePlaces(html, k) # {}
                                /\ Len(RuleText(html, k)) > 2}
ExpectedTitle(html) ==
    LET rules == QualifyingRules(html)
    IN IF rules = {} THEN UNKNOWN_TITLE
       ELSE RuleText(html, CHOOSE k \in rules : \A m \in rules : k <= m)

SHORT_TITLE == [key |-> "<title>", value |-> <<"a","b">>]
GOOD_H1 == [key |-> "<h1>", value |-> <<"H","e","a","d">>]

ParseReturned == spiderCall.name = "nativeParse" /\ spiderResult.kind = "result"

\* C23: the title of every result nativeParse returns is non-empty, with or
\* without an error in it.
C23_TitleNeverEmpty ==
    ParseReturned => spiderResult.result.title # << >>

\* a step of the extraction throws
StepFaults ==
    \/ PatternsThrow.title \/ PatternsThrow.thumbnail \/ PatternsThrow.play
    \/ PatternsThrow.download \/ PatternsThrow.metadata

\* C24: nativeParse never lets a fault of a step reach the caller: it
\* returns a result, the result of a call in which a step faulted has a
\* non-empty error, empty playUrls and downloadUrls and a parseTime of 0 or
\* more, and the result of a call in which none faulted has an empty error.
C24_FaultsBecomeErrorResults ==
    spiderCall.name = "nativeParse" =>
        /\ spiderResult.kind = "result"
        /\ StepFaults => /\ spiderResult.result.error # << >>
                         /\ spiderResult.result.playUrls = << >>
                         /\ spiderResult.result.downloadUrls = << >>
                         /\ spiderResult.result.parseTime >= 0
        /\ ~StepFaults => spiderResult.result.error = << >>

\* ------------------------------------------------- the registry, continued
\* the positions of a call that has found its context and holds a reference
\* to the wrapper
HoldingPositions == {"found", "run", "http"}

\* the call of thread t uses the context id
InUse(t, id) ==
    /\ pc[t] \in HoldingPositions
    /\ op[t].name \in ContextOps
    /\ op[t].context_id = id

\* C25: no step removes the wrapper of an id from the registry, which frees
\* its runtime and context, while the evaluate, callFunction, hasFunction or
\* getMemoryUsage call of some thread is using that id.
C25_NeverFreedWhileInUse ==
    [][\A id \in ContextIds :
          (id \in DOMAIN g_contexts /\ id \notin DOMAIN g_contexts')
              => \A t \in Threads : ~InUse(t, id)]_vars

\* a script runs in a context while another thread has called
\* destroyJSContext for the same context
C25_Witness ==
    \E t, u \in Threads :
        /\ t # u
        /\ pc[u] = "run" /\ InUse(u, op[u].context_id)
        /\ Registered(op[u].context_id)
        /\ pc[t] = "wait" /\ op[t].name = "destroyJSContext"
        /\ op[t].context_id = op[u].context_id

PendingPositions == {"wait", "found", "run", "http"}
\* thread t is inside a call that has not returned
Pending(t) == pc[t] \in PendingPositions

\* the locks thread t holds
HoldsRegistryLock(t) == g_contexts_mutex = t
HoldsContextLock(t) == \E id \in DOMAIN g_contexts : g_contexts[id].mutex = t

\* a per-context lock is held only inside the registry lock, and a thread
\* that waits for the registry lock holds no lock
LockOrder ==
    \A t \in Threads :
        /\ HoldsContextLock(t) => HoldsRegistryLock(t)
        /\ pc[t] = "wait" => ~HoldsRegistryLock(t) /\ ~HoldsContextLock(t)

\* a call that has returned has left both locks released
ReturnReleases ==
    \A t \in Threads :
        pc[t] = "done" => ~HoldsRegistryLock(t) /\ ~HoldsContextLock(t)

\* C26: the registry lock is taken before any per-context lock and is never
\* waited for with a per-context lock held; every return of create, destroy,
\* evaluate, callFunction, hasFunction and getMemoryUsage leaves both locks
\* released; and, every script run terminating, every pending call of every
\* thread eventually returns.
C26_EveryPendingCallReturns ==
    /\ [](LockOrder /\ ReturnReleases)
    /\ \A t \in Threads : Pending(t) ~> pc[t] = "done"

\* C27: every id in the registry maps to a wrapper with isValid set and with
\* a runtime and a context, it is at least 1 and below g_next_context_id, and
\* no evaluate or callFunction returns "ERROR: Context is invalid".
C27_RegisteredContextsAreValid ==
    /\ \A id \in DOMAIN g_contexts :
          /\ g_contexts[id].isValid
          /\ g_contexts[id].runtime
          /\ g_contexts[id].context
          /\ id >= 1
          /\ id < g_next_context_id
    /\ \A t \in Threads :
          op[t].name \in ScriptOps => ret[t] # StringRet(ERR_INVALID)

\* two contexts are registered and a script has run in one of them and
\* returned its value
C27_Witness ==
    /\ Cardinality(DOMAIN g_contexts) = 2
    /\ \E t \in Threads :
          /\ pc[t] = "done" /\ op[t].name = "nativeEvaluateScript"
          /\ ret[t] = StringRet(VALUE_TEXT)

\* a step in which evaluate/callFunction of thread t returns
ScriptOpReturnStep(t) ==
    op[t].name \in ScriptOps /\ pc[t] # "done" /\ pc'[t] = "done"

\* the call that returns in this step failed: its context was not found or
\* invalid, its function not found, its arguments no JSON, or its script
\* threw
CallFailed(t) ==
    \/ pc[t] = "wait"
    \/ pc[t] = "found"
    \/ pc[t] = "run" /\ JS_Run(op[t].script, resp[t]).isException

\* C28: a string returned by evaluate or callFunction begins with "ERROR:"
\* exactly when the call failed; a script that completes normally never
\* yields such a result, whatever its value and its HTTP responses.
C28_ErrorMarkerIffFailed ==
    [][\A t \in Threads :
          ScriptOpReturnStep(t) =>
              (BeginsWith(ret'[t].str, ERROR_MARK) <=> CallFailed(t))]_vars

\* the function-not-found results built from a name the caller passed
FunctionNotFoundTexts == {ERR_FUNC_NOT_FOUND \o f : f \in FuncNames}

\* C29: no JNI entry point reads the buffer of a Java string after releasing
\* it: no call faults on such a read, the function-not-found text of
\* nativeCallFunction ends with the name the caller passed, and the url in an
\* error result of nativeParse is the url the caller passed.
C29_NoReadAfterRelease ==
    /\ ~crashed
    /\ \A t \in Threads :
          BeginsWith(ret[t].str, ERR_FUNC_NOT_FOUND)
              => ret[t].str \in FunctionNotFoundTexts
    /\ ParseReturned => spiderResult.result.url = spiderCall.url

\* ---- JSON (RFC 8259) as a decoder reads it: objects, arrays, strings and
\* integers; the escapes \b, \f and \uXXXX, which no text here leads to, are
\* not read
JSON_WS == {" ", "\t", "\n", "\r"}
JSON_CONTROL == {"\t", "\n", "\r"}
JSON_ESCAPES == {"\"", "\\", "/", "n", "t", "r"}
JSON_DIGITS == {"0","1","2","3","4","5","6","7","8","9"}

Unescape(c) ==
    CASE c = "n" -> "\n"
      [] c = "t" -> "\t"
      [] c = "r" -> "\r"
      [] OTHER -> c

DigitValue(c) == CHOOSE d \in 0..9 : DECIMAL_DIGITS[d + 1] = c

JsonFail == [ok |-> FALSE, value |-> [type |-> "none", v |-> << >>], next |-> 0]

JsonOk(type, v, next) ==
    [ok |-> TRUE, value |-> [type |-> type, v |-> v], next |-> next]

RECURSIVE SkipWs(_, _)
SkipWs(s, i) ==
    IF i <= Len(s) /\ s[i] \in JSON_WS THEN SkipWs(s, i + 1) ELSE i

\* the characters of a string from position i, after its opening quote
RECURSIVE ScanString(_, _, _)
ScanString(s, i, acc) ==
    IF i > Len(s) THEN JsonFail
    ELSE IF s[i] = "\"" THEN JsonOk("string", acc, i + 1)
    ELSE IF s[i] = "\\"
    THEN IF i + 1 <= Len(s) /\ s[i + 1] \in JSON_ESCAPES
         THEN ScanString(s, i + 2, Append(acc, Unescape(s[i + 1])))
         ELSE JsonFail
    ELSE IF s[i] \in JSON_CONTROL THEN JsonFail
    ELSE ScanString(s, i + 1, Append(acc, s[i]))

RECURSIVE ScanDigits(_, _, _)
ScanDigits(s, i, n) ==
    IF i <= Len(s) /\ s[i] \in JSON_DIGITS
    THEN ScanDigits(s, i + 1, 10 * n + DigitValue(s[i]))
    ELSE JsonOk("number", n, i)

ScanNumber(s, i) ==
    LET negative == s[i] = "-"
        first == IF negative THEN i + 1 ELSE i
    IN IF first <= Len(s) /\ s[first] \in JSON_DIGITS
       THEN LET d == ScanDigits(s, first, 0)
            IN IF negative THEN JsonOk("number", 0 - d.value.v, d.next) ELSE d
       ELSE JsonFail

RECURSIVE ParseValue(_, _)
RECURSIVE ParseElements(_, _, _)
RECURSIVE ParseMembers(_, _, _)

ParseValue(s, i) ==
    LET j == SkipWs(s, i)
    IN IF j > Len(s) THEN JsonFail
       ELSE IF s[j] = "\"" THEN ScanString(s, j + 1, << >>)
       ELSE IF s[j] = "[" THEN ParseElements(s, j + 1, << >>)
       ELSE IF s[j] = "{" THEN ParseMembers(s, j + 1, << >>)
       ELSE ScanNumber(s, j)

\* the elements of an array from position i, after '[' or after a comma
ParseElements(s, i, acc) ==
    LET j == SkipWs(s, i)
    IN IF j <= Len(s) /\ s[j] = "]" /\ acc = << >>
       THEN JsonOk("array", acc, j + 1)
       ELSE LET e == ParseValue(s, j)
                k == SkipWs(s, e.next)
            IN IF ~e.ok \/ k > Len(s) THEN JsonFail
               ELSE IF s[k] = ","
               THEN ParseElements(s, k + 1, Append(acc, e.value))
               ELSE IF s[k] = "]"
               THEN JsonOk("array", Append(acc, e.value), k + 1)
               ELSE JsonFail

\* the members of an object from position i, after '{' or after a comma
ParseMembers(s, i, acc) ==
    LET j == SkipWs(s, i)
    IN IF j > Len(s) THEN JsonFail
       ELSE IF s[j] = "}" /\ acc = << >> THEN JsonOk("object", acc, j + 1)
       ELSE IF s[j] # "\"" THEN JsonFail
       ELSE LET key == ScanString(s, j + 1, << >>)
                c == SkipWs(s, key.next)
            IN IF ~key.ok \/ c > Len(s) THEN JsonFail
               ELSE IF s[c] # ":" THEN JsonFail
               ELSE LET e == ParseValue(s, c + 1)
                        k == SkipWs(s, e.next)
                        members == Append(acc, <<key.value.v, e.value>>)
                    IN IF ~e.ok \/ k > Len(s) THEN JsonFail
                       ELSE IF s[k] = ","
                       THEN ParseMembers(s, k + 1, members)
                       ELSE IF s[k] = "}"
                       THEN JsonOk("object", members, k + 1)
                       ELSE JsonFail

\* the value a text stands for: one value and nothing after it
Decode(text) ==
    LET p == ParseValue(text, 1)
    IN IF p.ok /\ SkipWs(text, p.next) = Len(text) + 1 THEN p ELSE JsonFail

\* the names of an object's members, and the value a name has: the last one
\* written under it
MemberNames(object) == {object.v[i][1] : i \in 1..Len(object.v)}

Member(object, name) ==
    LET last == CHOOSE i \in 1..Len(object.v) :
                    /\ object.v[i][1] = name
                    /\ \A j \in (i + 1)..Len(object.v) : object.v[j][1] # name
    IN object.v[last][2]

IsText(value, text) == value.type = "string" /\ value.v = text

IsNumber(value, n) == value.type = "number" /\ value.v = n

IsTextArray(value, texts) ==
    /\ value.type = "array"
    /\ Len(value.v) = Len(texts)
    /\ \A i \in 1..Len(texts) : IsText(value.v[i], texts[i])

IsTextMap(value, map) ==
    /\ value.type = "object"
    /\ MemberNames(value) = {map[i][1] : i \in 1..Len(map)}
    /\ \A i \in 1..Len(map) : IsText(Member(value, map[i][1]), map[i][2])

SpiderResultNames ==
    {<<"u","r","l">>, <<"t","i","t","l","e">>,
     <<"c","o","n","t","e","n","t">>, <<"t","h","u","m","b","n","a","i","l">>,
     <<"p","a","r","s","e","T","i","m","e">>, <<"e","r","r","o","r">>,
     <<"p","l","a","y","U","r","l","s">>,
     <<"d","o","w","n","l","o","a","d","U","r","l","s">>,
     <<"m","e","t","a","d","a","t","a">>}

HttpResponseNames ==
    {<<"s","t","a","t","u","s","C","o","d","e">>, <<"b","o","d","y">>,
     <<"r","e","s","p","o","n","s","e","T","i","m","e">>,
     <<"e","r","r","o","r">>, <<"h","e","a","d","e","r","s">>}

ParseResultNames ==
    {<<"t","e","x","t">>, <<"h","t","m","l">>,
     <<"a","t","t","r","i","b","u","t","e","s">>}

IsSpiderResult(value, r) ==
    /\ value.type = "object"
    /\ MemberNames(value) = SpiderResultNames
    /\ IsText(Member(value, <<"u","r","l">>), r.url)
    /\ IsText(Member(value, <<"t","i","t","l","e">>), r.title)
    /\ IsText(Member(value, <<"c","o","n","t","e","n","t">>), r.content)
    /\ IsText(Member(value, <<"t","h","u","m","b","n","a","i","l">>),
              r.thumbnail)
    /\ IsNumber(Member(value, <<"p","a","r","s","e","T","i","m","e">>),
                r.parseTime)
    /\ IsText(Member(value, <<"e","r","r","o","r">>), r.error)
    /\ IsTextArray(Member(value, <<"p","l","a","y","U","r","l","s">>),
                   r.playUrls)
    /\ IsTextArray(Member(value,
                          <<"d","o","w","n","l","o","a","d","U","r","l","s">>),
                   r.downloadUrls)
    /\ IsTextMap(Member(value, <<"m","e","t","a","d","a","t","a">>), r.metadata)

IsHttpResponse(value, r) ==
    /\ value.type = "object"
    /\ MemberNames(value) = HttpResponseNames
    /\ IsNumber(Member(value, <<"s","t","a","t","u","s","C","o","d","e">>),
                r.statusCode)
    /\ IsText(Member(value, <<"b","o","d","y">>), r.body)
    /\ IsNumber(Member(value,
                       <<"r","e","s","p","o","n","s","e","T","i","m","e">>),
                r.responseTime)
    /\ IsText(Member(value, <<"e","r","r","o","r">>), r.error)
    /\ IsTextMap(Member(value, <<"h","e","a","d","e","r","s">>), r.headers)

IsParseResult(value, r) ==
    /\ value.type = "object"
    /\ MemberNames(value) = ParseResultNames
    /\ IsText(Member(value, <<"t","e","x","t">>), r.text)
    /\ IsText(Member(value, <<"h","t","m","l">>), r.html)
    /\ IsTextMap(Member(value, <<"a","t","t","r","i","b","u","t","e","s">>),
                 r.attributes)

IsParseResultList(value, rs) ==
    /\ value.type = "array"
    /\ Len(value.v) = Len(rs)
    /\ \A i \in 1..Len(rs) : IsParseResult(value.v[i], rs[i])

\* C30: the text an encoder produces for a record is well-formed, and
\* decoding it yields exactly the fields of the record, whatever the
\* contents of the fields (double quotes, backslashes and line breaks
\* included).
C30_DecodingYieldsTheRecord ==
    LET decoded == Decode(spiderResult.text)
        r == spiderResult.result
    IN /\ spiderResult.kind = "spiderJson"
            => decoded.ok /\ IsSpiderResult(decoded.value, r)
       /\ spiderResult.kind = "httpJson"
            => decoded.ok /\ IsHttpResponse(decoded.value, r)
       /\ spiderResult.kind = "parseJson"
            => decoded.ok /\ IsParseResult(decoded.value, r)
       /\ spiderResult.kind = "parseListJson"
            => decoded.ok /\ IsParseResultList(decoded.value, r)
====
